---- MODULE Spec2Model ----
(***************************************************************************)
(* Lazy recursive Replace transducer (rustfst, algorithms/replace.rs).     *)
(* The model covers the engine ReplaceFstImpl (construction, compute_start,*)
(* compute_final, compute_final_arc, compute_arc, expand), the two         *)
(* interners of ReplaceStateTable, the expansion cache / lazy facade that  *)
(* drives the engine with its state enumeration, and the eager replace.    *)
(***************************************************************************)
EXTENDS Integers, Sequences, FiniteSets, TLC

(***************************************************************************)
(* Bounds of the model.                                                    *)
(***************************************************************************)
\* A state is expanded only while its prefix holds fewer than MaxDepth frames.
MaxDepth == 3
\* Longest path (in transitions) followed when accepting paths are listed.
MaxPathLen == 8

(***************************************************************************)
(* Option<T>: None is the empty sequence, Some(x) the one-element one.     *)
(***************************************************************************)
None == <<>>
Some(x) == <<x>>
IsSome(o) == Len(o) = 1
IsNone(o) == Len(o) = 0
Unwrap(o) == o[1]

\* crate::EPS_LABEL
EPS_LABEL == 0

(***************************************************************************)
(* Weights: the tropical semiring over small naturals (times is +, one 0). *)
(***************************************************************************)
One == 0
Times(a, b) == a + b

(***************************************************************************)
(* Component wFSTs.  State q of a component is index q + 1 of its          *)
(* sequences.                                                              *)
(***************************************************************************)
Arc(i, o, w, n) == [ilabel |-> i, olabel |-> o, weight |-> w, nextstate |-> n]

MkFst(s, f, a) == [start |-> s, final |-> f, arcs |-> a]

NumStates(fst) == Len(fst.arcs)
HasState(fst, q) == q >= 0 /\ q < NumStates(fst)

\* Fst::start
FstStart(fst) == fst.start

\* Fst::final_weight : Fallible<Option<W>>
FstFinalWeight(fst, q) ==
    IF HasState(fst, q) THEN [res |-> "ok", w |-> fst.final[q + 1]]
                        ELSE [res |-> "err", w |-> None]

\* Fst::is_final : Fallible<bool>
FstIsFinal(fst, q) ==
    IF HasState(fst, q) THEN [res |-> "ok", b |-> IsSome(fst.final[q + 1])]
                        ELSE [res |-> "err", b |-> FALSE]

\* Fst::arcs_iter : Fallible<iterator over the arcs leaving q>
FstArcsIter(fst, q) ==
    IF HasState(fst, q) THEN [res |-> "ok", arcs |-> fst.arcs[q + 1]]
                        ELSE [res |-> "err", arcs |-> <<>>]

(***************************************************************************)
(* The grammars the instance is built from.                                *)
(***************************************************************************)
\* A: 0 -(1,1,0.0)-> 1, final 1 (0.0)
FstTerminal == MkFst(Some(0), <<None, Some(0)>>, << <<Arc(1, 1, 0, 1)>>, <<>> >>)
\* A: 0 -(1,20,0.0)-> 1, final 1 (0.0)
FstCallB == MkFst(Some(0), <<None, Some(0)>>, << <<Arc(1, 20, 0, 1)>>, <<>> >>)
\* B: 0 -(2,2,0.0)-> 1, final 1 (0.0)
FstB == MkFst(Some(0), <<None, Some(0)>>, << <<Arc(2, 2, 0, 1)>>, <<>> >>)
\* A: 0 -(1,1,0.0)-> 1, 0 -(2,10,0.0)-> 1, final 1 (0.0)
FstSelfRec == MkFst(Some(0), <<None, Some(0)>>,
                    << <<Arc(1, 1, 0, 1), Arc(2, 10, 0, 1)>>, <<>> >>)
\* B without a start state
FstNoStart == MkFst(None, <<>>, <<>>)
\* A with weights, two call sites, an in-range unregistered label (15)
FstWeightedA == MkFst(Some(0), <<None, None, Some(3)>>,
                      << <<Arc(1, 20, 1, 1), Arc(3, 15, 2, 1)>>,
                         <<Arc(4, 20, 2, 2)>>,
                         <<>> >>)
\* B with weights, a final state that has a transition of its own
FstWeightedB == MkFst(Some(0), <<None, Some(2)>>,
                      << <<Arc(2, 2, 1, 1)>>, <<Arc(5, 30, 1, 1)>> >>)
\* A whose only transition targets a state A does not have
FstDangling == MkFst(Some(0), <<None, Some(0)>>, << <<Arc(1, 1, 0, 5)>>, <<>> >>)

\* A: 0 -(1,1)-> 1, 0 -(2,20)-> 1, 0 -(3,30)-> 1, 0 -(4,15)-> 1, final 1 (0.0);
\* 20 names a component without start, 15 one with a start, 30 is out of range
FstMixed == MkFst(Some(0), <<None, Some(0)>>,
                  << <<Arc(1, 1, 0, 1), Arc(2, 20, 0, 1), Arc(3, 30, 0, 1),
                       Arc(4, 15, 0, 1)>>,
                     <<>> >>)

\* C: 0 -(2,2)-> 1, final 1 (0.0) with 1 -(5,20)-> 1 and 1 -(6,30)-> 1
FstLoopB == MkFst(Some(0), <<None, Some(0)>>,
                  << <<Arc(2, 2, 0, 1)>>, <<Arc(5, 20, 0, 1), Arc(6, 30, 0, 1)>> >>)

Entry(l, f) == [label |-> l, fst |-> f]

GrammarTerminal == <<Entry(10, FstTerminal)>>
GrammarTwoLevel == <<Entry(10, FstCallB), Entry(20, FstB)>>
GrammarSelfRec == <<Entry(10, FstSelfRec)>>
GrammarNoStart == <<Entry(10, FstCallB), Entry(20, FstNoStart)>>
GrammarWeighted == <<Entry(10, FstWeightedA), Entry(20, FstWeightedB)>>
GrammarDuplicate == <<Entry(10, FstCallB), Entry(20, FstWeightedB), Entry(20, FstB)>>
GrammarDangling == <<Entry(10, FstDangling)>>
GrammarMixed == <<Entry(10, FstMixed), Entry(20, FstNoStart), Entry(15, FstLoopB)>>

Grammars == {GrammarTerminal, GrammarTwoLevel, GrammarSelfRec, GrammarNoStart,
             GrammarWeighted, GrammarDuplicate, GrammarDangling, GrammarMixed}

RootLabels == {10, 20, 99}

(***************************************************************************)
(* ReplaceLabelType and ReplaceFstOptions.                                 *)
(***************************************************************************)
ReplaceLabelType == {"ReplaceLabelNeither", "ReplaceLabelInput",
                     "ReplaceLabelOutput", "ReplaceLabelBoth"}

\* ReplaceFstOptions::new keeping both labels of a call when no epsilon is asked for
ReplaceFstOptions_new_both(root_label, epsilon_on_replace) ==
    [root |-> root_label,
     call_label_type |-> IF epsilon_on_replace THEN "ReplaceLabelNeither"
                                               ELSE "ReplaceLabelBoth",
     return_label_type |-> "ReplaceLabelNeither",
     call_output_label |-> IF epsilon_on_replace THEN Some(0) ELSE None,
     return_label |-> 0]

\* ReplaceFstOptions::new
ReplaceFstOptions_new(root_label, epsilon_on_replace) ==
    [root |-> root_label,
     call_label_type |-> IF epsilon_on_replace THEN "ReplaceLabelNeither"
                                               ELSE "ReplaceLabelInput",
     return_label_type |-> "ReplaceLabelNeither",
     call_output_label |-> IF epsilon_on_replace THEN Some(0) ELSE None,
     return_label |-> 0]

\* epsilon_on_input that forgets ReplaceLabelNeither
epsilon_on_input_output_only(label_type) == label_type = "ReplaceLabelOutput"

\* epsilon_on_input
epsilon_on_input(label_type) ==
    label_type = "ReplaceLabelNeither" \/ label_type = "ReplaceLabelOutput"

\* epsilon_on_output that forgets ReplaceLabelNeither
epsilon_on_output_input_only(label_type) == label_type = "ReplaceLabelInput"

\* epsilon_on_output
epsilon_on_output(label_type) ==
    label_type = "ReplaceLabelNeither" \/ label_type = "ReplaceLabelInput"

(***************************************************************************)
(* State of the program.                                                   *)
(***************************************************************************)
VARIABLES
    fst_list,            \* construction input: the (label, component) pairs
    opts,                \* construction input: ReplaceFstOptions
    status,              \* "init", "ok", "failed" (construction error), "panicked"
    call_label_type_,    \* ReplaceFstImpl fields
    return_label_type_,
    call_output_label_,
    return_label_,
    fst_array,
    nonterminal_set,
    nonterminal_hash,
    root,
    prefix_table,        \* state_table.prefix_table: identifier i is entry i + 1
    tuple_table,         \* state_table.tuple_table
    start_computed,      \* expansion cache
    start,
    expanded,
    trs,
    final_weight,
    expand_calls,        \* history: runs of the engine's expand per state
    compute_start_calls, \* history: runs of compute_start
    trs_origin,          \* history: per cached transition, the code path that built it
    last,                \* history: the last facade request and its answer
    states_iter,         \* state enumeration: "none", "running", "done"
    iter_s,              \* state enumeration: the next identifier to yield
    sequential           \* history: every expansion so far took the lowest unexpanded
                         \* identifier

inputs == <<fst_list, opts>>
config == <<call_label_type_, return_label_type_, call_output_label_, return_label_,
            fst_array, nonterminal_set, nonterminal_hash, root>>
tables == <<prefix_table, tuple_table>>
cache == <<start_computed, start, expanded, trs, final_weight>>
history == <<expand_calls, compute_start_calls, trs_origin, last>>
enumeration == <<states_iter, iter_s, sequential>>
vars == <<inputs, status, config, tables, cache, history, enumeration>>

(***************************************************************************)
(* Interner (StateTable): find_id and find_tuple.                          *)
(***************************************************************************)
Interned(table, key) == \E i \in 1..Len(table) : table[i] = key

IdOf(table, key) == (CHOOSE i \in 1..Len(table) : table[i] = key) - 1

\* StateTable::find_id : the identifier of key and the table afterwards
find_id(table, key) ==
    IF Interned(table, key) THEN [id |-> IdOf(table, key), table |-> table]
                            ELSE [id |-> Len(table), table |-> Append(table, key)]

\* StateTable::find_tuple
find_tuple(table, i) == table[i + 1]

Issued(table, i) == i >= 0 /\ i < Len(table)

(***************************************************************************)
(* ReplaceStackPrefix and ReplaceStateTuple.                               *)
(***************************************************************************)
PrefixTuple(fst_id, nextstate) == [fst_id |-> fst_id, nextstate |-> nextstate]

\* ReplaceStackPrefix::new
ReplaceStackPrefix_new == <<>>

\* push that puts the frame at the bottom of the stack
prefix_push_front(prefix, fst_id, nextstate) == <<PrefixTuple(fst_id, nextstate)>> \o prefix

\* ReplaceStackPrefix::push
prefix_push(prefix, fst_id, nextstate) == Append(prefix, PrefixTuple(fst_id, nextstate))

\* pop that removes every frame
prefix_pop_clear(prefix) == <<>>

\* ReplaceStackPrefix::pop (Vec::pop leaves an empty vector empty)
prefix_pop(prefix) ==
    IF Len(prefix) = 0 THEN prefix ELSE SubSeq(prefix, 1, Len(prefix) - 1)

\* ReplaceStackPrefix::top (only called on a non-empty prefix)
prefix_top(prefix) == prefix[Len(prefix)]

\* A tuple built without its component index
ReplaceStateTuple_new_no_fst_id(prefix_id, fst_id, fst_state) ==
    [prefix_id |-> prefix_id, fst_id |-> None, fst_state |-> fst_state]

\* ReplaceStateTuple::new
ReplaceStateTuple_new(prefix_id, fst_id, fst_state) ==
    [prefix_id |-> prefix_id, fst_id |-> fst_id, fst_state |-> fst_state]

\* get_prefix_id storing the prefix without looking it up
get_prefix_id_append(pt, prefix) == [id |-> Len(pt), table |-> Append(pt, prefix)]

\* ReplaceFstImpl::get_prefix_id
get_prefix_id(pt, prefix) == find_id(pt, prefix)

\* pop_prefix that forgets to pop
pop_prefix_no_pop(pt, prefix) == get_prefix_id(pt, prefix)

\* ReplaceFstImpl::pop_prefix
pop_prefix(pt, prefix) == get_prefix_id(pt, prefix_pop(prefix))

\* push_prefix that interns the prefix without the frame
push_prefix_no_push(pt, prefix, fst_id, nextstate) == get_prefix_id(pt, prefix)

\* ReplaceFstImpl::push_prefix
push_prefix(pt, prefix, fst_id, nextstate) ==
    get_prefix_id(pt, prefix_push(prefix, fst_id, nextstate))

\* Vec::get(..).unwrap() on fst_array; component index c is entry c + 1
HasFst(c) == c >= 0 /\ c < Len(fst_array)
FstAt(c) == fst_array[c + 1]

\* HashMap::get on nonterminal_hash
HashGet(label) ==
    IF label \in DOMAIN nonterminal_hash THEN Some(nonterminal_hash[label]) ELSE None

SetMin(S) == CHOOSE x \in S : \A y \in S : x <= y
SetMax(S) == CHOOSE x \in S : \A y \in S : x >= y

(***************************************************************************)
(* The engine: ReplaceFstImpl.  An engine step works on the pair of        *)
(* interners st = [prefix_table, tuple_table] and returns it updated.      *)
(***************************************************************************)
Tables(pt, tt) == [prefix_table |-> pt, tuple_table |-> tt]

\* compute_start that interns a tuple for the root even when the root has no start
compute_start_always_interns(st) ==
    IF Len(fst_array) = 0
    THEN [st |-> st, start |-> None]
    ELSE LET fst_start == FstStart(FstAt(root))
             p == get_prefix_id(st.prefix_table, ReplaceStackPrefix_new)
             t == find_id(st.tuple_table, ReplaceStateTuple_new(p.id, Some(root), fst_start))
         IN  [st |-> Tables(p.table, t.table),
              start |-> IF IsSome(fst_start) THEN Some(t.id) ELSE None]

\* compute_start that starts in the first component of the table
compute_start_first_component(st) ==
    IF Len(fst_array) = 0
    THEN [st |-> st, start |-> None]
    ELSE LET fst_start == FstStart(FstAt(0)) IN
         IF IsSome(fst_start)
         THEN LET p == get_prefix_id(st.prefix_table, ReplaceStackPrefix_new)
                  t == find_id(st.tuple_table,
                               ReplaceStateTuple_new(p.id, Some(0), Some(Unwrap(fst_start))))
              IN  [st |-> Tables(p.table, t.table), start |-> Some(t.id)]
         ELSE [st |-> st, start |-> None]

\* ReplaceFstImpl::compute_start : Fallible<Option<StateId>>
compute_start(st) ==
    IF Len(fst_array) = 0
    THEN [st |-> st, start |-> None]
    ELSE LET fst_start == FstStart(FstAt(root)) IN
         IF IsSome(fst_start)
         THEN LET p == get_prefix_id(st.prefix_table, ReplaceStackPrefix_new)
                  t == find_id(st.tuple_table,
                               ReplaceStateTuple_new(p.id, Some(root), Some(Unwrap(fst_start))))
              IN  [st |-> Tables(p.table, t.table), start |-> Some(t.id)]
         ELSE [st |-> st, start |-> None]

\* compute_final without the test on the prefix
compute_final_any_prefix(st, state) ==
    LET tuple == find_tuple(st.tuple_table, state) IN
    IF IsNone(tuple.fst_id) \/ IsNone(tuple.fst_state) \/ ~HasFst(Unwrap(tuple.fst_id))
    THEN [res |-> "panic", w |-> None]
    ELSE FstFinalWeight(FstAt(Unwrap(tuple.fst_id)), Unwrap(tuple.fst_state))

\* ReplaceFstImpl::compute_final : Fallible<Option<W>>; "panic" is a failed unwrap
compute_final(st, state) ==
    LET tuple == find_tuple(st.tuple_table, state) IN
    IF tuple.prefix_id = 0
    THEN IF IsNone(tuple.fst_id) \/ IsNone(tuple.fst_state)
         THEN [res |-> "panic", w |-> None]
         ELSE IF ~HasFst(Unwrap(tuple.fst_id))
              THEN [res |-> "panic", w |-> None]
              ELSE FstFinalWeight(FstAt(Unwrap(tuple.fst_id)), Unwrap(tuple.fst_state))
    ELSE [res |-> "ok", w |-> None]

\* ReplaceFstImpl::compute_final_arc : Option<Arc>; "panic" is a failed unwrap
compute_final_arc(st, state) ==
    LET tuple == find_tuple(st.tuple_table, state)
        fst_state == tuple.fst_state
    IN
    IF IsNone(fst_state)
    THEN [res |-> "ok", st |-> st, arc |-> None]
    ELSE IF IsNone(tuple.fst_id) \/ ~HasFst(Unwrap(tuple.fst_id))
    THEN [res |-> "panic", st |-> st, arc |-> None]
    ELSE LET fst == FstAt(Unwrap(tuple.fst_id))
             is_final == FstIsFinal(fst, Unwrap(fst_state))
         IN
         IF is_final.res # "ok"
         THEN [res |-> "panic", st |-> st, arc |-> None]
         ELSE IF is_final.b /\ tuple.prefix_id > 0
         THEN LET ilabel == IF epsilon_on_input(return_label_type_)
                            THEN EPS_LABEL ELSE return_label_
                  olabel == IF epsilon_on_output(return_label_type_)
                            THEN 0 ELSE return_label_
                  stack == find_tuple(st.prefix_table, tuple.prefix_id)
              IN
              IF Len(stack) = 0
              THEN [res |-> "panic", st |-> st, arc |-> None]
              ELSE LET top == prefix_top(stack)
                       p == pop_prefix(st.prefix_table, stack)
                       n == find_id(st.tuple_table,
                                    ReplaceStateTuple_new(p.id, top.fst_id, top.nextstate))
                       st2 == Tables(p.table, n.table)
                       weight == FstFinalWeight(fst, Unwrap(fst_state))
                   IN
                   IF weight.res # "ok"
                   THEN [res |-> "panic", st |-> st2, arc |-> None]
                   ELSE IF IsSome(weight.w)
                   THEN [res |-> "ok", st |-> st2,
                         arc |-> Some(Arc(ilabel, olabel, Unwrap(weight.w), n.id))]
                   ELSE [res |-> "ok", st |-> st2, arc |-> None]
         ELSE [res |-> "ok", st |-> st, arc |-> None]

\* Where a cached transition comes from: the synthetic return transition, a
\* call built from the component transition src, or src emitted as a terminal
Origin(kind, src) == [kind |-> kind, src |-> src]

\* The range test with both comparisons off by one
out_of_range_inclusive(olabel) ==
    \/ olabel = EPS_LABEL
    \/ olabel <= SetMin(nonterminal_set)
    \/ olabel >= SetMax(nonterminal_set)

\* The range test at the head of compute_arc
out_of_range(olabel) ==
    \/ olabel = EPS_LABEL
    \/ olabel < SetMin(nonterminal_set)
    \/ olabel > SetMax(nonterminal_set)

\* compute_arc that hands the callee's start, present or not, to the target tuple
compute_arc_no_start_test(st, tuple, arc) ==
    IF out_of_range(arc.olabel)
    THEN LET n == find_id(st.tuple_table,
                          ReplaceStateTuple_new(tuple.prefix_id, tuple.fst_id,
                                                Some(arc.nextstate)))
         IN  [st |-> Tables(st.prefix_table, n.table), kind |-> "terminal",
              arc |-> Some(Arc(arc.ilabel, arc.olabel, arc.weight, n.id))]
    ELSE LET nonterminal == HashGet(arc.olabel) IN
         IF IsSome(nonterminal)
         THEN LET p == find_tuple(st.prefix_table, tuple.prefix_id)
                  nt_prefix == push_prefix(st.prefix_table, p, tuple.fst_id,
                                           Some(arc.nextstate))
                  nt_start == FstStart(FstAt(Unwrap(nonterminal)))
              IN
              IF TRUE
              THEN LET nt_nextstate ==
                           find_id(st.tuple_table,
                                   ReplaceStateTuple_new(nt_prefix.id, nonterminal,
                                                         nt_start))
                       ilabel == IF epsilon_on_input(call_label_type_)
                                 THEN 0 ELSE arc.ilabel
                       olabel == IF epsilon_on_output(call_label_type_)
                                 THEN 0
                                 ELSE IF IsSome(call_output_label_)
                                      THEN Unwrap(call_output_label_) ELSE arc.olabel
                   IN  [st |-> Tables(nt_prefix.table, nt_nextstate.table), kind |-> "call",
                        arc |-> Some(Arc(ilabel, olabel, arc.weight, nt_nextstate.id))]
              ELSE [st |-> Tables(nt_prefix.table, st.tuple_table), kind |-> "call",
                    arc |-> None]
         ELSE LET n == find_id(st.tuple_table,
                               ReplaceStateTuple_new(tuple.prefix_id, tuple.fst_id,
                                                     Some(arc.nextstate)))
              IN  [st |-> Tables(st.prefix_table, n.table), kind |-> "terminal",
                   arc |-> Some(Arc(arc.ilabel, arc.olabel, arc.weight, n.id))]

\* compute_arc whose out-of-range branch keeps the source state as target
compute_arc_terminal_stays(st, tuple, arc) ==
    IF out_of_range(arc.olabel)
    THEN LET n == find_id(st.tuple_table,
                          ReplaceStateTuple_new(tuple.prefix_id, tuple.fst_id,
                                                tuple.fst_state))
         IN  [st |-> Tables(st.prefix_table, n.table), kind |-> "terminal",
              arc |-> Some(Arc(arc.ilabel, arc.olabel, arc.weight, n.id))]
    ELSE LET nonterminal == HashGet(arc.olabel) IN
         IF IsSome(nonterminal)
         THEN LET p == find_tuple(st.prefix_table, tuple.prefix_id)
                  nt_prefix == push_prefix(st.prefix_table, p, tuple.fst_id,
                                           Some(arc.nextstate))
                  nt_start == FstStart(FstAt(Unwrap(nonterminal)))
              IN
              IF IsSome(nt_start)
              THEN LET nt_nextstate ==
                           find_id(st.tuple_table,
                                   ReplaceStateTuple_new(nt_prefix.id, nonterminal,
                                                         Some(Unwrap(nt_start))))
                       ilabel == IF epsilon_on_input(call_label_type_)
                                 THEN 0 ELSE arc.ilabel
                       olabel == IF epsilon_on_output(call_label_type_)
                                 THEN 0
                                 ELSE IF IsSome(call_output_label_)
                                      THEN Unwrap(call_output_label_) ELSE arc.olabel
                   IN  [st |-> Tables(nt_prefix.table, nt_nextstate.table), kind |-> "call",
                        arc |-> Some(Arc(ilabel, olabel, arc.weight, nt_nextstate.id))]
              ELSE [st |-> Tables(nt_prefix.table, st.tuple_table), kind |-> "call",
                    arc |-> None]
         ELSE LET n == find_id(st.tuple_table,
                               ReplaceStateTuple_new(tuple.prefix_id, tuple.fst_id,
                                                     Some(arc.nextstate)))
              IN  [st |-> Tables(st.prefix_table, n.table), kind |-> "terminal",
                   arc |-> Some(Arc(arc.ilabel, arc.olabel, arc.weight, n.id))]

\* compute_arc that drops a transition whose in-range output label is not registered
compute_arc_unregistered_dropped(st, tuple, arc) ==
    IF out_of_range(arc.olabel)
    THEN LET n == find_id(st.tuple_table,
                          ReplaceStateTuple_new(tuple.prefix_id, tuple.fst_id,
                                                Some(arc.nextstate)))
         IN  [st |-> Tables(st.prefix_table, n.table), kind |-> "terminal",
              arc |-> Some(Arc(arc.ilabel, arc.olabel, arc.weight, n.id))]
    ELSE LET nonterminal == HashGet(arc.olabel) IN
         IF IsSome(nonterminal)
         THEN LET p == find_tuple(st.prefix_table, tuple.prefix_id)
                  nt_prefix == push_prefix(st.prefix_table, p, tuple.fst_id,
                                           Some(arc.nextstate))
                  nt_start == FstStart(FstAt(Unwrap(nonterminal)))
              IN
              IF IsSome(nt_start)
              THEN LET nt_nextstate ==
                           find_id(st.tuple_table,
                                   ReplaceStateTuple_new(nt_prefix.id, nonterminal,
                                                         Some(Unwrap(nt_start))))
                       ilabel == IF epsilon_on_input(call_label_type_)
                                 THEN 0 ELSE arc.ilabel
                       olabel == IF epsilon_on_output(call_label_type_)
                                 THEN 0
                                 ELSE IF IsSome(call_output_label_)
                                      THEN Unwrap(call_output_label_) ELSE arc.olabel
                   IN  [st |-> Tables(nt_prefix.table, nt_nextstate.table), kind |-> "call",
                        arc |-> Some(Arc(ilabel, olabel, arc.weight, nt_nextstate.id))]
              ELSE [st |-> Tables(nt_prefix.table, st.tuple_table), kind |-> "call",
                    arc |-> None]
         ELSE [st |-> st, kind |-> "terminal", arc |-> None]

\* ReplaceFstImpl::compute_arc : Option<Arc>
compute_arc(st, tuple, arc) ==
    IF out_of_range(arc.olabel)
    THEN LET n == find_id(st.tuple_table,
                          ReplaceStateTuple_new(tuple.prefix_id, tuple.fst_id,
                                                Some(arc.nextstate)))
         IN  [st |-> Tables(st.prefix_table, n.table), kind |-> "terminal",
              arc |-> Some(Arc(arc.ilabel, arc.olabel, arc.weight, n.id))]
    ELSE LET nonterminal == HashGet(arc.olabel) IN
         IF IsSome(nonterminal)
         THEN LET p == find_tuple(st.prefix_table, tuple.prefix_id)
                  nt_prefix == push_prefix(st.prefix_table, p, tuple.fst_id,
                                           Some(arc.nextstate))
                  nt_start == FstStart(FstAt(Unwrap(nonterminal)))
              IN
              IF IsSome(nt_start)
              THEN LET nt_nextstate ==
                           find_id(st.tuple_table,
                                   ReplaceStateTuple_new(nt_prefix.id, nonterminal,
                                                         Some(Unwrap(nt_start))))
                       ilabel == IF epsilon_on_input(call_label_type_)
                                 THEN 0 ELSE arc.ilabel
                       olabel == IF epsilon_on_output(call_label_type_)
                                 THEN 0
                                 ELSE IF IsSome(call_output_label_)
                                      THEN Unwrap(call_output_label_) ELSE arc.olabel
                   IN  [st |-> Tables(nt_prefix.table, nt_nextstate.table), kind |-> "call",
                        arc |-> Some(Arc(ilabel, olabel, arc.weight, nt_nextstate.id))]
              ELSE [st |-> Tables(nt_prefix.table, st.tuple_table), kind |-> "call",
                    arc |-> None]
         ELSE LET n == find_id(st.tuple_table,
                               ReplaceStateTuple_new(tuple.prefix_id, tuple.fst_id,
                                                     Some(arc.nextstate)))
              IN  [st |-> Tables(st.prefix_table, n.table), kind |-> "terminal",
                   arc |-> Some(Arc(arc.ilabel, arc.olabel, arc.weight, n.id))]

\* The loop of expand that interns the target of a call but does not push the
\* call transition
RECURSIVE expand_arcs_calls_not_pushed(_, _, _, _, _, _)
expand_arcs_calls_not_pushed(st, tuple, arcs, k, pushed, origins) ==
    IF k > Len(arcs)
    THEN [st |-> st, pushed |-> pushed, origins |-> origins]
    ELSE LET r == compute_arc(st, tuple, arcs[k]) IN
         IF IsSome(r.arc) /\ r.kind # "call"
         THEN expand_arcs_calls_not_pushed(r.st, tuple, arcs, k + 1,
                                           Append(pushed, Unwrap(r.arc)),
                                           Append(origins, Origin(r.kind, Some(arcs[k]))))
         ELSE expand_arcs_calls_not_pushed(r.st, tuple, arcs, k + 1, pushed, origins)

\* The loop of expand over the component transitions arcs[k..], pushing onto pushed
RECURSIVE expand_arcs(_, _, _, _, _, _)
expand_arcs(st, tuple, arcs, k, pushed, origins) ==
    IF k > Len(arcs)
    THEN [st |-> st, pushed |-> pushed, origins |-> origins]
    ELSE LET r == compute_arc(st, tuple, arcs[k]) IN
         IF IsSome(r.arc)
         THEN expand_arcs(r.st, tuple, arcs, k + 1, Append(pushed, Unwrap(r.arc)),
                          Append(origins, Origin(r.kind, Some(arcs[k]))))
         ELSE expand_arcs(r.st, tuple, arcs, k + 1, pushed, origins)

\* expand that leaves the return transition out
expand_no_return(st, state) ==
    LET tuple == find_tuple(st.tuple_table, state) IN
    IF IsSome(tuple.fst_state)
    THEN LET it == FstArcsIter(FstAt(Unwrap(tuple.fst_id)), Unwrap(tuple.fst_state)) IN
         IF it.res # "ok"
         THEN [res |-> "err", st |-> st, pushed |-> <<>>, origins |-> <<>>]
         ELSE LET r == expand_arcs(st, tuple, it.arcs, 1, <<>>, <<>>) IN
              [res |-> "ok", st |-> r.st, pushed |-> r.pushed, origins |-> r.origins]
    ELSE [res |-> "ok", st |-> st, pushed |-> <<>>, origins |-> <<>>]

\* expand that pushes the return transition after the component transitions
expand_return_last(st, state) ==
    LET tuple == find_tuple(st.tuple_table, state) IN
    IF IsSome(tuple.fst_state)
    THEN LET fa == compute_final_arc(st, state)
             pushed0 == IF IsSome(fa.arc) THEN <<Unwrap(fa.arc)>> ELSE <<>>
             origins0 == IF IsSome(fa.arc) THEN <<Origin("return", None)>> ELSE <<>>
         IN
         IF fa.res # "ok"
         THEN [res |-> fa.res, st |-> fa.st, pushed |-> <<>>, origins |-> <<>>]
         ELSE LET it == FstArcsIter(FstAt(Unwrap(tuple.fst_id)), Unwrap(tuple.fst_state)) IN
              IF it.res # "ok"
              THEN [res |-> "err", st |-> fa.st, pushed |-> pushed0, origins |-> origins0]
              ELSE LET r == expand_arcs(fa.st, tuple, it.arcs, 1, <<>>, <<>>) IN
                   [res |-> "ok", st |-> r.st, pushed |-> r.pushed \o pushed0,
                    origins |-> r.origins \o origins0]
    ELSE [res |-> "ok", st |-> st, pushed |-> <<>>, origins |-> <<>>]

\* ReplaceFstImpl::expand : Fallible<()>; pushed is what push_arc wrote for state
expand(st, state) ==
    LET tuple == find_tuple(st.tuple_table, state) IN
    IF IsSome(tuple.fst_state)
    THEN LET fa == compute_final_arc(st, state)
             pushed0 == IF IsSome(fa.arc) THEN <<Unwrap(fa.arc)>> ELSE <<>>
             origins0 == IF IsSome(fa.arc) THEN <<Origin("return", None)>> ELSE <<>>
         IN
         IF fa.res # "ok"
         THEN [res |-> fa.res, st |-> fa.st, pushed |-> <<>>, origins |-> <<>>]
         ELSE LET it == FstArcsIter(FstAt(Unwrap(tuple.fst_id)), Unwrap(tuple.fst_state)) IN
              IF it.res # "ok"
              THEN [res |-> "err", st |-> fa.st, pushed |-> pushed0, origins |-> origins0]
              ELSE LET r == expand_arcs(fa.st, tuple, it.arcs, 1, pushed0, origins0) IN
                   [res |-> "ok", st |-> r.st, pushed |-> r.pushed, origins |-> r.origins]
    ELSE [res |-> "ok", st |-> st, pushed |-> <<>>, origins |-> <<>>]

(***************************************************************************)
(* Construction: ReplaceFstImpl::new.                                      *)
(***************************************************************************)
EmptyMap == [x \in {} |-> 0]

\* An insert that keeps the value a key already has
HashInsert_keep_first(h, k, v) ==
    [x \in (DOMAIN h) \cup {k} |-> IF x \in DOMAIN h THEN h[x] ELSE v]

\* HashMap::insert
HashInsert(h, k, v) == [x \in (DOMAIN h) \cup {k} |-> IF x = k THEN v ELSE h[x]]

\* The loop of new over fst_list[k..]
RECURSIVE register(_, _, _)
register(list, k, acc) ==
    IF k > Len(list)
    THEN acc
    ELSE register(list, k + 1,
                  [nonterminal_hash |-> HashInsert(acc.nonterminal_hash, list[k].label,
                                                   Len(acc.fst_array)),
                   nonterminal_set |-> acc.nonterminal_set \cup {list[k].label},
                   fst_array |-> Append(acc.fst_array, list[k].fst)])

\* new without the check of the root label
ReplaceFstImpl_new_unchecked(list, o) ==
    LET reg == register(list, 1, [nonterminal_hash |-> EmptyMap,
                                  nonterminal_set |-> {},
                                  fst_array |-> <<>>])
    IN  [res |-> "ok",
         call_label_type_ |->
             IF IsSome(o.call_output_label) /\ Unwrap(o.call_output_label) = EPS_LABEL
             THEN "ReplaceLabelNeither" ELSE o.call_label_type,
         return_label_type_ |->
             IF o.return_label = 0 THEN "ReplaceLabelNeither" ELSE o.return_label_type,
         call_output_label_ |-> o.call_output_label,
         return_label_ |-> o.return_label,
         fst_array |-> reg.fst_array,
         nonterminal_set |-> reg.nonterminal_set,
         nonterminal_hash |-> reg.nonterminal_hash,
         root |-> IF o.root \in DOMAIN reg.nonterminal_hash
                  THEN reg.nonterminal_hash[o.root] ELSE 0]

\* ReplaceFstImpl::new : Fallible<Self>
ReplaceFstImpl_new(list, o) ==
    LET reg == register(list, 1, [nonterminal_hash |-> EmptyMap,
                                  nonterminal_set |-> {},
                                  fst_array |-> <<>>])
    IN  [res |-> IF o.root \in DOMAIN reg.nonterminal_hash THEN "ok" ELSE "err",
         call_label_type_ |->
             IF IsSome(o.call_output_label) /\ Unwrap(o.call_output_label) = EPS_LABEL
             THEN "ReplaceLabelNeither" ELSE o.call_label_type,
         return_label_type_ |->
             IF o.return_label = 0 THEN "ReplaceLabelNeither" ELSE o.return_label_type,
         call_output_label_ |-> o.call_output_label,
         return_label_ |-> o.return_label,
         fst_array |-> reg.fst_array,
         nonterminal_set |-> reg.nonterminal_set,
         nonterminal_hash |-> reg.nonterminal_hash,
         root |-> IF o.root \in DOMAIN reg.nonterminal_hash
                  THEN reg.nonterminal_hash[o.root] ELSE 0]

NoRequest == [op |-> "none", state |-> 0, hit |-> FALSE, res |-> "ok", value |-> None]

\* The instance before construction: no field set, empty interners and cache
Unbuilt ==
    /\ status = "init"
    /\ call_label_type_ = "ReplaceLabelNeither"
    /\ return_label_type_ = "ReplaceLabelNeither"
    /\ call_output_label_ = None
    /\ return_label_ = 0
    /\ fst_array = <<>>
    /\ nonterminal_set = {}
    /\ nonterminal_hash = EmptyMap
    /\ root = 0
    /\ prefix_table = <<>>
    /\ tuple_table = <<>>
    /\ start_computed = FALSE
    /\ start = None
    /\ expanded = {}
    /\ trs = EmptyMap
    /\ final_weight = EmptyMap
    /\ expand_calls = EmptyMap
    /\ trs_origin = EmptyMap
    /\ compute_start_calls = 0
    /\ last = NoRequest
    /\ states_iter = "none"
    /\ iter_s = 0
    /\ sequential = TRUE

Init ==
    /\ fst_list \in Grammars
    /\ opts \in {ReplaceFstOptions_new(r, e) : r \in RootLabels, e \in BOOLEAN}
    /\ Unbuilt

\* Every options value ReplaceFstImpl::new can be handed: the four call label
\* policies with no, an epsilon or a non-epsilon call output label
AnyOptions ==
    {[root |-> 10, call_label_type |-> c, return_label_type |-> "ReplaceLabelNeither",
      call_output_label |-> l, return_label |-> 0] :
         c \in ReplaceLabelType, l \in {None, Some(0), Some(7)}}

InitOptions ==
    /\ fst_list \in {GrammarTwoLevel, GrammarMixed}
    /\ opts \in AnyOptions
    /\ Unbuilt

\* ReplaceFst::new : builds the options and the engine; an error leaves no instance
New ==
    /\ status = "init"
    /\ LET r == ReplaceFstImpl_new(fst_list, opts) IN
       IF r.res = "ok"
       THEN /\ status' = "ok"
            /\ call_label_type_' = r.call_label_type_
            /\ return_label_type_' = r.return_label_type_
            /\ call_output_label_' = r.call_output_label_
            /\ return_label_' = r.return_label_
            /\ fst_array' = r.fst_array
            /\ nonterminal_set' = r.nonterminal_set
            /\ nonterminal_hash' = r.nonterminal_hash
            /\ root' = r.root
       ELSE /\ status' = "failed"
            /\ UNCHANGED config
    /\ UNCHANGED <<inputs, tables, cache, history, enumeration>>

(***************************************************************************)
(* Expansion cache and lazy facade.                                        *)
(***************************************************************************)
\* num_known_states
num_known_states == Len(tuple_table)

Slot(f, s, default) == IF s \in DOMAIN f THEN f[s] ELSE default
Put(f, s, v) == [x \in (DOMAIN f) \cup {s} |-> IF x = s THEN v ELSE f[x]]

\* Number of frames of the prefix of result state s
Depth(s) == Len(find_tuple(prefix_table, find_tuple(tuple_table, s).prefix_id))

\* A cache that runs compute_start on every request
CacheStart_always ==
    LET r == compute_start(Tables(prefix_table, tuple_table)) IN
    /\ prefix_table' = r.st.prefix_table
    /\ tuple_table' = r.st.tuple_table
    /\ start' = r.start
    /\ start_computed' = TRUE
    /\ compute_start_calls' = compute_start_calls + 1

\* The cache's start slot: compute_start on the first request, the stored value
\* afterwards
CacheStart ==
    IF ~start_computed
    THEN LET r == compute_start(Tables(prefix_table, tuple_table)) IN
         /\ prefix_table' = r.st.prefix_table
         /\ tuple_table' = r.st.tuple_table
         /\ start' = r.start
         /\ start_computed' = TRUE
         /\ compute_start_calls' = compute_start_calls + 1
    ELSE UNCHANGED <<tables, start, start_computed, compute_start_calls>>

\* start()
Start ==
    /\ status = "ok"
    /\ CacheStart
    /\ last' = [op |-> "start", state |-> 0, hit |-> start_computed, res |-> "ok",
                 value |-> start']
    /\ UNCHANGED <<inputs, status, config, expanded, trs, final_weight, expand_calls,
                   trs_origin, enumeration>>

\* A cache that expands on every request, expanded or not
CacheFill_always(s) ==
    LET e == expand(Tables(prefix_table, tuple_table), s)
        f == compute_final(e.st, s)
    IN
    /\ expand_calls' = Put(expand_calls, s, Slot(expand_calls, s, 0) + 1)
    /\ status' = IF e.res = "panic" \/ (e.res = "ok" /\ f.res = "panic")
                  THEN "panicked" ELSE status
    /\ prefix_table' = e.st.prefix_table
    /\ tuple_table' = e.st.tuple_table
    /\ IF e.res = "ok" \/ e.pushed # <<>>
       THEN /\ trs' = Put(trs, s, Slot(trs, s, <<>>) \o e.pushed)
            /\ trs_origin' = Put(trs_origin, s, Slot(trs_origin, s, <<>>) \o e.origins)
       ELSE UNCHANGED <<trs, trs_origin>>
    /\ IF e.res = "ok" /\ f.res = "ok"
       THEN /\ expanded' = expanded \cup {s}
            /\ final_weight' = Put(final_weight, s, f.w)
       ELSE UNCHANGED <<expanded, final_weight>>

\* A cache that marks s expanded before the engine has expanded it
CacheFill_marks_first(s) ==
    IF s \in expanded
    THEN UNCHANGED <<status, tables, expanded, trs, final_weight, expand_calls, trs_origin>>
    ELSE LET e == expand(Tables(prefix_table, tuple_table), s)
             f == compute_final(e.st, s)
         IN
         /\ expand_calls' = Put(expand_calls, s, Slot(expand_calls, s, 0) + 1)
         /\ status' = IF e.res = "panic" \/ (e.res = "ok" /\ f.res = "panic")
                       THEN "panicked" ELSE status
         /\ prefix_table' = e.st.prefix_table
         /\ tuple_table' = e.st.tuple_table
         /\ IF e.res = "ok" \/ e.pushed # <<>>
            THEN /\ trs' = Put(trs, s, Slot(trs, s, <<>>) \o e.pushed)
                 /\ trs_origin' = Put(trs_origin, s,
                                      Slot(trs_origin, s, <<>>) \o e.origins)
            ELSE UNCHANGED <<trs, trs_origin>>
         /\ expanded' = expanded \cup {s}
         /\ IF e.res = "ok" /\ f.res = "ok"
            THEN final_weight' = Put(final_weight, s, f.w)
            ELSE UNCHANGED final_weight

\* A cache that, having expanded s, goes on to expand the target of the first
\* transition of s
CacheFill_pre_expands(s) ==
    IF s \in expanded
    THEN UNCHANGED <<status, tables, expanded, trs, final_weight, expand_calls, trs_origin>>
    ELSE LET e == expand(Tables(prefix_table, tuple_table), s)
             f == compute_final(e.st, s)
             ok == e.res = "ok" /\ f.res = "ok"
             t == IF ok /\ e.pushed # <<>> THEN e.pushed[1].nextstate ELSE s
             more == t # s /\ t \notin expanded
             e2 == IF more THEN expand(e.st, t)
                   ELSE [res |-> "err", st |-> e.st, pushed |-> <<>>, origins |-> <<>>]
             f2 == IF e2.res = "ok" THEN compute_final(e2.st, t)
                   ELSE [res |-> "err", w |-> None]
             both == e2.res = "ok" /\ f2.res = "ok"
         IN
         /\ expand_calls' = Put(expand_calls, s, Slot(expand_calls, s, 0) + 1)
         /\ status' = IF e.res = "panic" \/ (e.res = "ok" /\ f.res = "panic")
                       THEN "panicked" ELSE status
         /\ prefix_table' = IF both THEN e2.st.prefix_table ELSE e.st.prefix_table
         /\ tuple_table' = IF both THEN e2.st.tuple_table ELSE e.st.tuple_table
         /\ IF e.res = "ok" \/ e.pushed # <<>>
            THEN LET trs1 == Put(trs, s, Slot(trs, s, <<>>) \o e.pushed)
                     org1 == Put(trs_origin, s, Slot(trs_origin, s, <<>>) \o e.origins)
                 IN  /\ trs' = IF both THEN Put(trs1, t, e2.pushed) ELSE trs1
                     /\ trs_origin' = IF both THEN Put(org1, t, e2.origins) ELSE org1
            ELSE UNCHANGED <<trs, trs_origin>>
         /\ IF ok
            THEN /\ expanded' = expanded \cup {s} \cup (IF both THEN {t} ELSE {})
                 /\ final_weight' = IF both THEN Put(Put(final_weight, s, f.w), t, f2.w)
                                    ELSE Put(final_weight, s, f.w)
            ELSE UNCHANGED <<expanded, final_weight>>

\* The cache miss of final_weight(s) and transitions(s): the engine expands s,
\* its transitions and final weight are stored and s is marked expanded
CacheFill(s) ==
    IF s \in expanded
    THEN UNCHANGED <<status, tables, expanded, trs, final_weight, expand_calls, trs_origin>>
    ELSE LET e == expand(Tables(prefix_table, tuple_table), s)
             f == compute_final(e.st, s)
         IN
         /\ expand_calls' = Put(expand_calls, s, Slot(expand_calls, s, 0) + 1)
         /\ status' = IF e.res = "panic" \/ (e.res = "ok" /\ f.res = "panic")
                       THEN "panicked" ELSE status
         /\ prefix_table' = e.st.prefix_table
         /\ tuple_table' = e.st.tuple_table
         /\ IF e.res = "ok" \/ e.pushed # <<>>
            THEN /\ trs' = Put(trs, s, Slot(trs, s, <<>>) \o e.pushed)
                 /\ trs_origin' = Put(trs_origin, s,
                                      Slot(trs_origin, s, <<>>) \o e.origins)
            ELSE UNCHANGED <<trs, trs_origin>>
         /\ IF e.res = "ok" /\ f.res = "ok"
            THEN /\ expanded' = expanded \cup {s}
                 /\ final_weight' = Put(final_weight, s, f.w)
            ELSE UNCHANGED <<expanded, final_weight>>

\* s is expanded already, or is the lowest identifier that is not
InTurn(s) == s \in expanded \/ \A t \in 0..(s - 1) : t \in expanded

Requestable(s) ==
    /\ status = "ok"
    /\ Issued(tuple_table, s)
    /\ s \in expanded \/ Depth(s) < MaxDepth

\* final_weight(s)
FinalWeight(s) ==
    /\ Requestable(s)
    /\ CacheFill(s)
    /\ last' = IF status' = "ok" /\ s \in expanded'
               THEN [op |-> "final_weight", state |-> s, hit |-> s \in expanded,
                     res |-> "ok", value |-> final_weight'[s]]
               ELSE [op |-> "final_weight", state |-> s, hit |-> s \in expanded,
                     res |-> "err", value |-> None]
    /\ sequential' = (sequential /\ InTurn(s))
    /\ UNCHANGED <<inputs, config, start_computed, start, compute_start_calls,
                   states_iter, iter_s>>

\* transitions(s)
Transitions(s) ==
    /\ Requestable(s)
    /\ CacheFill(s)
    /\ last' = IF status' = "ok" /\ s \in expanded'
               THEN [op |-> "transitions", state |-> s, hit |-> s \in expanded,
                     res |-> "ok", value |-> trs'[s]]
               ELSE [op |-> "transitions", state |-> s, hit |-> s \in expanded,
                     res |-> "err", value |-> None]
    /\ sequential' = (sequential /\ InTurn(s))
    /\ UNCHANGED <<inputs, config, start_computed, start, compute_start_calls,
                   states_iter, iter_s>>

\* states_iter(): asks for the start state and begins at identifier 0
StatesIter ==
    /\ status = "ok"
    /\ states_iter = "none"
    /\ CacheStart
    /\ states_iter' = "running"
    /\ iter_s' = 0
    /\ last' = [op |-> "states_iter", state |-> 0, hit |-> start_computed, res |-> "ok",
                 value |-> start']
    /\ UNCHANGED <<inputs, status, config, expanded, trs, final_weight, expand_calls,
                   trs_origin, sequential>>

\* One step of the enumerator: while the next identifier is issued it is expanded
\* and yielded; when it is not, the enumerator stops
StatesIterNext ==
    /\ status = "ok"
    /\ states_iter = "running"
    /\ IF iter_s < num_known_states
       THEN /\ iter_s \in expanded \/ Depth(iter_s) < MaxDepth
            /\ CacheFill(iter_s)
            /\ IF status' = "ok" /\ iter_s \in expanded'
               THEN /\ iter_s' = iter_s + 1
                    /\ last' = [op |-> "next", state |-> iter_s,
                                 hit |-> iter_s \in expanded, res |-> "ok",
                                 value |-> Some(iter_s)]
               ELSE /\ iter_s' = iter_s
                    /\ last' = [op |-> "next", state |-> iter_s,
                                 hit |-> iter_s \in expanded, res |-> "err",
                                 value |-> None]
            /\ sequential' = (sequential /\ InTurn(iter_s))
            /\ states_iter' = states_iter
       ELSE /\ states_iter' = "done"
            /\ last' = [op |-> "next", state |-> iter_s, hit |-> FALSE, res |-> "ok",
                         value |-> None]
            /\ UNCHANGED <<status, tables, expanded, trs, final_weight, expand_calls,
                           trs_origin, iter_s, sequential>>
    /\ UNCHANGED <<inputs, config, start_computed, start, compute_start_calls>>

Next ==
    \/ New
    \/ Start
    \/ \E s \in 0..(num_known_states - 1) : FinalWeight(s)
    \/ \E s \in 0..(num_known_states - 1) : Transitions(s)
    \/ StatesIter
    \/ StatesIterNext

Spec == Init /\ [][Next]_vars

\* ENABLED <<StatesIterNext>>_vars written out: the guards of StatesIterNext, every
\* step of which changes iter_s, states_iter or status
IterEnabled ==
    /\ status = "ok"
    /\ states_iter = "running"
    /\ iter_s < num_known_states => (iter_s \in expanded \/ Depth(iter_s) < MaxDepth)

\* The enumeration is a loop of the caller: once begun it keeps taking its steps.
\* This is weak fairness of StatesIterNext, []<>(~ENABLED <<A>>_vars \/ <<A>>_vars),
\* with the enabling condition written out.
FairSpec == Spec /\ ([]<>~IterEnabled \/ []<><<StatesIterNext>>_vars)

\* The engine built by ReplaceFstImpl::new from any options value
OptionsSpec == InitOptions /\ [][Next]_vars

(***************************************************************************)
(* The eager entry point: replace builds the engine and materialises the   *)
(* enumeration into a container.                                           *)
(***************************************************************************)
\* The enumeration driven to completion from identifier s, one container state
\* (transitions, final weight) per identifier
RECURSIVE compute_states(_, _, _)
compute_states(st, s, states) ==
    IF s >= Len(st.tuple_table)
    THEN [res |-> "ok", states |-> states]
    ELSE LET e == expand(st, s) IN
         IF e.res # "ok"
         THEN [res |-> e.res, states |-> states]
         ELSE LET f == compute_final(e.st, s) IN
              IF f.res # "ok"
              THEN [res |-> f.res, states |-> states]
              ELSE compute_states(e.st, s + 1,
                                  Append(states, [trs |-> e.pushed, final_weight |-> f.w]))

\* compute(): the container of an engine that holds the fields of the state and
\* fresh tables
compute ==
    LET s0 == compute_start(Tables(<<>>, <<>>))
        r == compute_states(s0.st, 0, <<>>)
    IN  [res |-> r.res, start |-> s0.start, states |-> r.states]

\* replace that always asks for the labels of a call to be kept
replace_no_epsilon(list, root_label, epsilon_on_replace) ==
    LET o == ReplaceFstOptions_new(root_label, FALSE)
        impl == ReplaceFstImpl_new(list, o)
    IN  IF impl.res # "ok"
        THEN [res |-> "err", impl |-> impl, fst |-> None]
        ELSE [res |-> "ok", impl |-> impl, fst |-> Some(compute)]

\* replace(fst_list, root, epsilon_on_replace) : Fallible<container>; impl is the
\* engine it builds, fst the container compute() fills
replace(list, root_label, epsilon_on_replace) ==
    LET o == ReplaceFstOptions_new(root_label, epsilon_on_replace)
        impl == ReplaceFstImpl_new(list, o)
    IN  IF impl.res # "ok"
        THEN [res |-> "err", impl |-> impl, fst |-> None]
        ELSE [res |-> "ok", impl |-> impl, fst |-> Some(compute)]

(***************************************************************************)
(* Reading a result state back: its tuple, prefix, component and state.    *)
(***************************************************************************)
KnownStates == 0..(num_known_states - 1)
TupleOf(s) == find_tuple(tuple_table, s)
PrefixOf(s) == find_tuple(prefix_table, TupleOf(s).prefix_id)
CompOf(s) == FstAt(Unwrap(TupleOf(s).fst_id))
QOf(s) == Unwrap(TupleOf(s).fst_state)
\* q is final in component c, for the tuple (p, c, q) of s
ComponentFinal(s) == HasState(CompOf(s), QOf(s)) /\ IsSome(CompOf(s).final[QOf(s) + 1])
\* Positions of the cached transitions of s that a given code path built
OfKind(s, kind) == {k \in 1..Len(trs[s]) : trs_origin[s][k].kind = kind}
EpsilonOnReplace == opts.call_output_label = Some(0)

(***************************************************************************)
(* C1.  Finality placement: for every expanded result state s with tuple   *)
(* (p, c, q), the cached final weight is present iff p is the empty prefix *)
(* and q is final in c, and then it is c's final weight at q; a state with *)
(* a non-empty prefix never has a final weight.                            *)
(***************************************************************************)
C1_FinalityPlacement ==
    \A s \in expanded :
        /\ IsSome(final_weight[s]) <=> (PrefixOf(s) = <<>> /\ ComponentFinal(s))
        /\ IsSome(final_weight[s]) => final_weight[s] = CompOf(s).final[QOf(s) + 1]
        /\ PrefixOf(s) # <<>> => IsNone(final_weight[s])

\* A top-level final state with weight 3 and a nested final state, both expanded
C1_Witness ==
    /\ \E s \in expanded : final_weight[s] = Some(3) /\ PrefixOf(s) = <<>>
    /\ \E s \in expanded : PrefixOf(s) # <<>> /\ ComponentFinal(s)

(***************************************************************************)
(* C2.  Return on finality: an expanded state (p, c, q) with q final in c  *)
(* and p non-empty, top frame (c_ret, q_ret), caches exactly one return    *)
(* transition; its target reads back as (p without its top frame, c_ret,   *)
(* q_ret) and its weight is c's final weight at q.  With p empty or q not  *)
(* final there is no return transition.                                    *)
(***************************************************************************)
C2_ReturnOnFinality ==
    \A s \in expanded :
        IF ComponentFinal(s) /\ PrefixOf(s) # <<>>
        THEN /\ Cardinality(OfKind(s, "return")) = 1
             /\ \A k \in OfKind(s, "return") :
                    LET t == trs[s][k]
                        top == PrefixOf(s)[Len(PrefixOf(s))]
                    IN  /\ Issued(tuple_table, t.nextstate)
                        /\ PrefixOf(t.nextstate) = SubSeq(PrefixOf(s), 1, Len(PrefixOf(s)) - 1)
                        /\ TupleOf(t.nextstate).fst_id = top.fst_id
                        /\ TupleOf(t.nextstate).fst_state = top.nextstate
                        /\ Some(t.weight) = CompOf(s).final[QOf(s) + 1]
        ELSE OfKind(s, "return") = {}

\* A nested final state with final weight 2 whose return transition is cached
C2_Witness ==
    \E s \in expanded :
        /\ ComponentFinal(s) /\ Len(PrefixOf(s)) > 0
        /\ \E k \in OfKind(s, "return") : trs[s][k].weight = 2

NoDuplicate(table) == \A i, j \in 1..Len(table) : table[i] = table[j] => i = j

(***************************************************************************)
(* C3.  Both interners are bijections between issued identifiers and       *)
(* distinct keys: no tuple and no prefix is stored under two identifiers,  *)
(* so interning a key again returned its existing identifier.              *)
(***************************************************************************)
C3_InternerBijection == NoDuplicate(tuple_table) /\ NoDuplicate(prefix_table)

\* One tuple was interned twice (two cached transitions of different states share
\* their target) and a return re-interned a prefix that was already there
C3_Witness ==
    /\ \E s1, s2 \in expanded : s1 # s2 /\
          \E k1 \in 1..Len(trs[s1]), k2 \in 1..Len(trs[s2]) :
              trs[s1][k1].nextstate = trs[s2][k2].nextstate
    /\ \E s \in expanded : OfKind(s, "return") # {}

(***************************************************************************)
(* C4.  At-most-once expansion: the engine's expand runs at most once per  *)
(* state; a request for a state that is already expanded is answered from  *)
(* the cache with the list the first request stored, appends nothing and   *)
(* issues no identifier; a cached list never changes afterwards.           *)
(***************************************************************************)
C4_ExpandAtMostOnce ==
    /\ [](\A s \in DOMAIN expand_calls : expand_calls[s] <= 1)
    /\ [][/\ (last'.op \in {"final_weight", "transitions"} /\ last'.state \in expanded)
             => /\ UNCHANGED <<tables, expanded, trs, final_weight, expand_calls>>
                /\ last'.res = "ok"
                /\ last'.op = "transitions" => last'.value = trs[last'.state]
                /\ last'.op = "final_weight" => last'.value = final_weight[last'.state]
          /\ \A s \in expanded : s \in expanded' /\ trs'[s] = trs[s]]_vars

\* A transitions request that found its state expanded returned the two cached
\* transitions; the state was expanded once, and so were two others
C4_Witness ==
    /\ last.op = "transitions" /\ last.hit /\ last.state \in expanded
    /\ expand_calls[last.state] = 1
    /\ Cardinality(expanded) >= 3
    /\ Len(last.value) = 2

Registered(label) == \E k \in 1..Len(fst_list) : fst_list[k].label = label

(***************************************************************************)
(* C5.  Construction with a root label that is not registered fails and    *)
(* leaves no instance; with a registered root it succeeds and root is the  *)
(* index of a component registered under that label.                       *)
(***************************************************************************)
C5_UnknownRoot ==
    status # "init" =>
        IF Registered(opts.root)
        THEN /\ status # "failed"
             /\ Len(fst_array) = Len(fst_list)
             /\ HasFst(root)
             /\ fst_list[root + 1].label = opts.root
             /\ FstAt(root) = fst_list[root + 1].fst
        ELSE /\ status = "failed"
             /\ fst_array = <<>> /\ tuple_table = <<>> /\ prefix_table = <<>>
             /\ ~start_computed /\ expanded = {}

\* Construction was attempted with root 99 over a grammar that registers 10 and 20
C5_Witness == status = "failed" /\ opts.root = 99 /\ Len(fst_list) = 2

(***************************************************************************)
(* C6.  With epsilon_on_replace = true every cached call transition and    *)
(* every cached return transition has input label 0 and output label 0.    *)
(***************************************************************************)
C6_EpsilonOnReplace ==
    EpsilonOnReplace =>
        \A s \in DOMAIN trs : \A k \in 1..Len(trs[s]) :
            trs_origin[s][k].kind \in {"call", "return"}
                => trs[s][k].ilabel = 0 /\ trs[s][k].olabel = 0

\* A call built from a transition with labels (1, 20) and a return are both cached
C6_Witness ==
    /\ EpsilonOnReplace
    /\ \E s \in expanded : \E k \in OfKind(s, "call") :
           Unwrap(trs_origin[s][k].src).ilabel = 1 /\ Unwrap(trs_origin[s][k].src).olabel = 20
    /\ \E s \in expanded : OfKind(s, "return") # {}

(***************************************************************************)
(* The cached result read as a wFST: accepting paths from the start, as    *)
(* sequences of <<state, position in its transition list>>, at most        *)
(* MaxPathLen transitions long and through expanded states only.           *)
(***************************************************************************)
RECURSIVE PathsFrom(_, _)
PathsFrom(s, n) ==
    (IF s \in expanded /\ IsSome(final_weight[s]) THEN {<<>>} ELSE {})
    \cup
    (IF n = 0 \/ s \notin expanded
     THEN {}
     ELSE UNION {{<<<<s, k>>>> \o p : p \in PathsFrom(trs[s][k].nextstate, n - 1)}
                 : k \in 1..Len(trs[s])})

AcceptingPaths ==
    IF start_computed /\ IsSome(start) THEN PathsFrom(Unwrap(start), MaxPathLen) ELSE {}

ArcAt(step) == trs[step[1]][step[2]]
OriginAt(step) == trs_origin[step[1]][step[2]]
NotEpsilon(l) == l # EPS_LABEL
\* Input and output label sequences of a path, epsilons removed
ILabels(path) == SelectSeq([i \in 1..Len(path) |-> ArcAt(path[i]).ilabel], NotEpsilon)
OLabels(path) == SelectSeq([i \in 1..Len(path) |-> ArcAt(path[i]).olabel], NotEpsilon)
LastState(path) ==
    IF Len(path) = 0 THEN Unwrap(start) ELSE ArcAt(path[Len(path)]).nextstate
RECURSIVE ArcsWeight(_, _)
ArcsWeight(path, k) ==
    IF k > Len(path) THEN One ELSE Times(ArcAt(path[k]).weight, ArcsWeight(path, k + 1))
\* Weight of an accepting path: its transitions' weights times the final weight
PathWeight(path) == Times(ArcsWeight(path, 1), Unwrap(final_weight[LastState(path)]))
Calls(path) == Cardinality({i \in 1..Len(path) : OriginAt(path[i]).kind = "call"})
Repeat(l, n) == [i \in 1..n |-> l]

FullyExpanded == start_computed /\ IsSome(start) /\ expanded = KnownStates
ExpandedBelow(n) == start_computed /\ \A s \in KnownStates : Depth(s) < n => s \in expanded

C7_TwoLevelCase ==
    fst_list = GrammarTwoLevel /\ opts.root = 10 /\ ~EpsilonOnReplace /\ FullyExpanded

(***************************************************************************)
(* C7.  With epsilon_on_replace = false a call transition built from a     *)
(* component transition (i, o, w, q') keeps the input label i and carries  *)
(* the output label 0; for {10 -> A, 20 -> B}, A: 0 -(1,20)-> 1 final,     *)
(* B: 0 -(2,2)-> 1 final, root 10, the one accepting path has the input    *)
(* sequence 1 2 and, epsilons removed, the output sequence 2.              *)
(***************************************************************************)
C7_CallKeepsInputOnly ==
    (status # "init" /\ ~EpsilonOnReplace) =>
        /\ \A s \in DOMAIN trs : \A k \in OfKind(s, "call") :
               /\ trs[s][k].ilabel = Unwrap(trs_origin[s][k].src).ilabel
               /\ trs[s][k].olabel = 0
               /\ trs[s][k].weight = Unwrap(trs_origin[s][k].src).weight
        /\ C7_TwoLevelCase =>
               {<<ILabels(p), OLabels(p)>> : p \in AcceptingPaths} = {<< <<1, 2>>, <<2>> >>}

\* The statement as first made: the call carries the non-terminal label o as its
\* output label and the accepted output sequence is 20 2
C7_CallKeepsBothLabels ==
    (status # "init" /\ ~EpsilonOnReplace) =>
        /\ \A s \in DOMAIN trs : \A k \in OfKind(s, "call") :
               /\ trs[s][k].ilabel = Unwrap(trs_origin[s][k].src).ilabel
               /\ trs[s][k].olabel = Unwrap(trs_origin[s][k].src).olabel
        /\ C7_TwoLevelCase =>
               {<<ILabels(p), OLabels(p)>> : p \in AcceptingPaths} = {<< <<1, 2>>, <<20, 2>> >>}

\* The two-level grammar fully expanded without epsilon_on_replace, with its call
C7_Witness ==
    /\ C7_TwoLevelCase
    /\ AcceptingPaths # {}
    /\ \E s \in expanded : \E k \in OfKind(s, "call") :
           Unwrap(trs_origin[s][k].src).olabel = 20

C8_TwoLevelCase ==
    fst_list = GrammarTwoLevel /\ opts.root = 10 /\ EpsilonOnReplace /\ FullyExpanded

(***************************************************************************)
(* C8.  {10 -> A, 20 -> B}, A: 0 -(1,20,0.0)-> 1 final (0.0),              *)
(* B: 0 -(2,2,0.0)-> 1 final (0.0), root 10, epsilon_on_replace = true:    *)
(* the fully expanded result has exactly one accepting path; its weight is *)
(* the product of the component weights along it and the final weights     *)
(* (0.0); epsilons removed, its input sequence is 2 and its output         *)
(* sequence is 2.                                                          *)
(***************************************************************************)
C8_OneAcceptingPath ==
    C8_TwoLevelCase =>
        /\ Cardinality(AcceptingPaths) = 1
        /\ \A p \in AcceptingPaths :
               /\ PathWeight(p) =
                      Times(FstCallB.arcs[1][1].weight,
                            Times(FstB.arcs[1][1].weight,
                                  Times(Unwrap(FstB.final[2]), Unwrap(FstCallB.final[2]))))
               /\ PathWeight(p) = 0
               /\ ILabels(p) = <<2>>
               /\ OLabels(p) = <<2>>
               /\ Calls(p) = 1

\* The two-level grammar fully expanded with epsilon_on_replace, four states known
C8_Witness == C8_TwoLevelCase /\ num_known_states = 4 /\ AcceptingPaths # {}

C9_SelfRecCase == fst_list = GrammarSelfRec /\ opts.root = 10 /\ status = "ok"

(***************************************************************************)
(* C9.  Self-recursive grammar {10 -> A}, A: 0 -(1,1)-> 1, 0 -(2,10)-> 1,  *)
(* final 1, root 10.  For every n in 1..MaxDepth, once the states of depth *)
(* below n are expanded, the result has an accepting path through n - 1    *)
(* nested calls; epsilons removed, its input sequence is the label 2       *)
(* repeated n - 1 times followed by one label 1 when epsilon_on_replace is *)
(* false, and the single label 1 when it is true.  No accepting path       *)
(* carries the label 1 more than once.                                     *)
(***************************************************************************)
C9_SelfRecursionAccepts ==
    C9_SelfRecCase =>
        /\ \A n \in 1..MaxDepth :
               ExpandedBelow(n) =>
                   \E p \in AcceptingPaths :
                       /\ Calls(p) = n - 1
                       /\ ILabels(p) = IF EpsilonOnReplace
                                       THEN <<1>> ELSE Repeat(2, n - 1) \o <<1>>
        /\ \A p \in AcceptingPaths :
               Cardinality({i \in 1..Len(ILabels(p)) : ILabels(p)[i] = 1}) = 1

\* The statement as first made: for every n there is an accepting path whose
\* input sequence is the label 1 repeated n times
C9_AcceptsOnePowerN ==
    C9_SelfRecCase =>
        \A n \in 1..MaxDepth :
            ExpandedBelow(n) => \E p \in AcceptingPaths : ILabels(p) = Repeat(1, n)

\* Every state of depth below 3 is expanded and a path through two nested calls
\* accepts
C9_Witness ==
    /\ C9_SelfRecCase /\ ExpandedBelow(3)
    /\ \E p \in AcceptingPaths : Calls(p) = 2

(***************************************************************************)
(* C10.  Same self-recursive grammar: for every k in 0..MaxDepth, when     *)
(* exactly the known states of prefix depth below k have been expanded,    *)
(* 2k expansions have run, each state once and none of depth k or more,    *)
(* and the prefix interner holds exactly k + 1 prefixes, one per depth     *)
(* 0..k.                                                                   *)
(***************************************************************************)
C10_BoundedEnumeration ==
    (C9_SelfRecCase /\ start_computed) =>
        \A k \in 0..MaxDepth :
            expanded = {s \in KnownStates : Depth(s) < k} =>
                /\ Len(prefix_table) = k + 1
                /\ \A d \in 0..k : Len(prefix_table[d + 1]) = d
                /\ Cardinality(expanded) = 2 * k
                /\ DOMAIN expand_calls = expanded
                /\ \A s \in expanded : expand_calls[s] = 1

\* The enumeration to depth 2: four states expanded, three prefixes, and a state
\* of depth 2 known but not expanded
C10_Witness ==
    /\ C9_SelfRecCase /\ start_computed
    /\ expanded = {s \in KnownStates : Depth(s) < 2}
    /\ Cardinality(expanded) = 4
    /\ \E s \in KnownStates : Depth(s) = 2 /\ s \notin expanded

(***************************************************************************)
(* Calls into a component without start.                                   *)
(***************************************************************************)
\* The component registered under label l: of several entries the last one
Callee(l) == fst_list[SetMax({k \in 1..Len(fst_list) : fst_list[k].label = l})].fst
\* arc is a call (its output label is registered) into a component without start
SuppressedCall(arc) == Registered(arc.olabel) /\ IsNone(Callee(arc.olabel).start)
\* The transitions the component lists for the tuple (p, c, q) of s
ComponentArcs(s) == CompOf(s).arcs[QOf(s) + 1]
Count(seq, P(_)) == Cardinality({k \in 1..Len(seq) : P(seq[k])})

\* C11. A component transition whose output label names a registered component
\* without start state emits nothing: no cached call leads into such a
\* component, an expanded state caches one transition per component
\* transition that is not such a call (plus its return transition), and with
\* A: 0 -(1,20)-> 1 as root and B without start under 20 the start state of
\* the result has an empty transition list.
C11_CalleeWithoutStart ==
    /\ \A s \in expanded : \A k \in OfKind(s, "call") :
           IsSome(Callee(Unwrap(trs_origin[s][k].src).olabel).start)
    /\ \A s \in expanded :
           Len(trs[s]) - Cardinality(OfKind(s, "return")) =
               Len(ComponentArcs(s)) - Count(ComponentArcs(s), SuppressedCall)
    /\ (fst_list = GrammarNoStart /\ opts.root = 10 /\ IsSome(start)
        /\ Unwrap(start) \in expanded) => trs[Unwrap(start)] = <<>>

C11_Witness ==
    /\ fst_list = GrammarNoStart /\ opts.root = 10
    /\ IsSome(start) /\ Unwrap(start) \in expanded
    /\ Count(ComponentArcs(Unwrap(start)), SuppressedCall) = 1
    /\ trs[Unwrap(start)] = <<>>

(***************************************************************************)
(* A root component without calls.                                         *)
(***************************************************************************)
RegisteredLabels == {fst_list[k].label : k \in 1..Len(fst_list)}
\* The output label is 0 or lies outside [N_min, N_max]
OutsideRange(arc) ==
    \/ arc.olabel = 0
    \/ arc.olabel < SetMin(RegisteredLabels)
    \/ arc.olabel > SetMax(RegisteredLabels)
NoCallLabels(fst) ==
    \A q \in 1..Len(fst.arcs) : \A k \in 1..Len(fst.arcs[q]) : OutsideRange(fst.arcs[q][k])
\* The states of fst that its transitions reach from the set S
RECURSIVE ReachFrom(_, _)
ReachFrom(fst, S) ==
    LET N == S \cup UNION {{fst.arcs[q + 1][k].nextstate : k \in 1..Len(fst.arcs[q + 1])} :
                              q \in {x \in S : HasState(fst, x)}}
    IN  IF N = S THEN S ELSE ReachFrom(fst, N)
Reachable(fst) == IF IsSome(fst.start) THEN ReachFrom(fst, {Unwrap(fst.start)}) ELSE {}
RootFst == Callee(opts.root)
C12_Case == status = "ok" /\ NoCallLabels(RootFst)

\* C12. When every output label of the root component is 0 or outside
\* [N_min, N_max], the result is the root component restricted to the states
\* reachable from its start, renumbered: every result state has the empty
\* prefix and stands for one reachable root state, an expanded state caches
\* the root's transitions (labels, weight, target) in order and the root's
\* final weight, none of them a call or a return, and the start is the root's.
C12_RootWithoutCalls ==
    C12_Case =>
        /\ \A s \in KnownStates :
               /\ PrefixOf(s) = <<>>
               /\ CompOf(s) = RootFst
               /\ QOf(s) \in Reachable(RootFst)
               /\ \A u \in KnownStates : QOf(u) = QOf(s) => u = s
        /\ \A s \in expanded :
               /\ Len(trs[s]) = Len(ComponentArcs(s))
               /\ \A k \in 1..Len(trs[s]) :
                      /\ trs[s][k].ilabel = ComponentArcs(s)[k].ilabel
                      /\ trs[s][k].olabel = ComponentArcs(s)[k].olabel
                      /\ trs[s][k].weight = ComponentArcs(s)[k].weight
                      /\ QOf(trs[s][k].nextstate) = ComponentArcs(s)[k].nextstate
                      /\ trs_origin[s][k].kind = "terminal"
               /\ final_weight[s] = RootFst.final[QOf(s) + 1]
        /\ start_computed =>
               /\ IsSome(start) = IsSome(RootFst.start)
               /\ IsSome(start) => QOf(Unwrap(start)) = Unwrap(RootFst.start)
        /\ (start_computed /\ FullyExpanded) =>
               {QOf(s) : s \in KnownStates} = Reachable(RootFst)

C12_Witness ==
    /\ fst_list = GrammarWeighted /\ opts.root = 20
    /\ C12_Case
    /\ start_computed /\ FullyExpanded
    /\ Cardinality(KnownStates) = 2
    /\ \E s \in expanded : Len(trs[s]) = 1 /\ IsSome(final_weight[s])

(***************************************************************************)
(* Eager and lazy results.                                                 *)
(***************************************************************************)
\* The engine replace builds holds the fields of the instance of the state
SameEngine(impl) ==
    /\ impl.call_label_type_ = call_label_type_
    /\ impl.return_label_type_ = return_label_type_
    /\ impl.call_output_label_ = call_output_label_
    /\ impl.return_label_ = return_label_
    /\ impl.fst_array = fst_array
    /\ impl.nonterminal_set = nonterminal_set
    /\ impl.nonterminal_hash = nonterminal_hash
    /\ impl.root = root
\* The lazy facade has been enumerated to completion, in the enumeration's order
EnumeratedToCompletion == status = "ok" /\ states_iter = "done" /\ sequential
\* The container c and the cache of the lazy facade hold the same wFST
SameAsCache(c) ==
    /\ c.res = "ok"
    /\ c.start = start
    /\ Len(c.states) = num_known_states
    /\ \A s \in KnownStates :
           /\ s \in expanded
           /\ c.states[s + 1].trs = trs[s]
           /\ c.states[s + 1].final_weight = final_weight[s]

Referenced(s) == \E u \in DOMAIN trs : \E k \in 1..Len(trs[u]) : trs[u][k].nextstate = s
\* The targets of list[1..k] that are not below n
NewTargets(list, k, n) == {list[j].nextstate : j \in 1..k} \ (0..(n - 1))
\* A step issues the identifiers n, n + 1, ... in the order the transitions it
\* caches refer to them, and leaves the issued ones alone
IssuedInOrder ==
    LET n == num_known_states IN
    /\ Len(tuple_table') >= n
    /\ SubSeq(tuple_table', 1, n) = tuple_table
    /\ \A s \in DOMAIN trs' :
           LET old == Len(Slot(trs, s, <<>>)) IN
           \A k \in (old + 1)..Len(trs'[s]) :
               trs'[s][k].nextstate >= n =>
                   NewTargets(trs'[s], k, n) = n..(trs'[s][k].nextstate)
    /\ (~start_computed /\ start_computed') =>
           Len(tuple_table') = (IF IsSome(start') THEN 1 ELSE 0)

\* C14. The issued result-state identifiers are exactly 0 .. n-1 with
\* n = num_known_states: the start state and every target of a cached
\* transition is issued, every issued identifier is the start or such a
\* target, the start state when it exists is 0, and a step gives the tuples
\* it refers to for the first time the next unused identifiers, in the order
\* of first reference.
C14_DenseIdentifiers ==
    /\ [](/\ start_computed /\ IsSome(start) => start = Some(0)
          /\ ~start_computed => num_known_states = 0
          /\ \A u \in DOMAIN trs : \A k \in 1..Len(trs[u]) :
                 trs[u][k].nextstate \in KnownStates
          /\ \A s \in KnownStates : Some(s) = start \/ Referenced(s))
    /\ [][IssuedInOrder]_vars

C14_Witness ==
    /\ fst_list = GrammarWeighted /\ opts.root = 10
    /\ ~sequential
    /\ expanded = KnownStates
    /\ num_known_states >= 5
    /\ \E u \in expanded : Len(trs[u]) = 2
                           /\ trs[u][1].nextstate + 1 = trs[u][2].nextstate

(***************************************************************************)
(* Push and pop on the prefix interner.                                    *)
(***************************************************************************)
PrefixIds == 0..(Len(prefix_table) - 1)
\* Frames (component, return state), those of the grammar and others
Frames == {PrefixTuple(Some(c), Some(q)) : c \in 0..2, q \in 0..2}
\* push_prefix of f on the prefix with identifier pid, then pop_prefix of what
\* was interned: the identifiers given and the growth of the table by the pop
PushPop(pid, f) ==
    LET pushed == push_prefix(prefix_table, find_tuple(prefix_table, pid),
                              f.fst_id, f.nextstate)
        popped == pop_prefix(pushed.table, find_tuple(pushed.table, pushed.id))
    IN  [pushed |-> pushed.id, popped |-> popped.id,
         fresh |-> Len(popped.table) - Len(pushed.table)]

\* C15. In every reachable state of the prefix interner, for every interned
\* prefix p and every frame f: pushing f on p and interning, then popping the
\* result and interning, gives the identifier of p and no fresh identifier;
\* and a cached return transition out of the prefix a cached call pushed
\* leads back to the caller's prefix, component and return state.
C15_PopPush ==
    /\ \A pid \in PrefixIds : \A f \in Frames :
           /\ PushPop(pid, f).popped = pid
           /\ PushPop(pid, f).fresh = 0
           /\ PushPop(pid, f).pushed # pid
    /\ \A s \in expanded : \A k \in OfKind(s, "call") :
       \A u \in expanded : \A j \in OfKind(u, "return") :
           TupleOf(u).prefix_id = TupleOf(trs[s][k].nextstate).prefix_id =>
               TupleOf(trs[u][j].nextstate) =
                   ReplaceStateTuple_new(TupleOf(s).prefix_id, TupleOf(s).fst_id,
                                         Some(Unwrap(trs_origin[s][k].src).nextstate))

C15_Witness ==
    /\ Len(prefix_table) >= 3
    /\ \E pid \in PrefixIds : \E f \in Frames :
           /\ pid > 0
           /\ PushPop(pid, f).pushed = Len(prefix_table)
           /\ PushPop(pid, f).popped = pid
    /\ \E s \in expanded : \E k \in OfKind(s, "call") :
       \E u \in expanded : \E j \in OfKind(u, "return") :
           /\ TupleOf(s).prefix_id > 0
           /\ TupleOf(u).prefix_id = TupleOf(trs[s][k].nextstate).prefix_id
           /\ TupleOf(trs[u][j].nextstate).prefix_id = TupleOf(s).prefix_id

(***************************************************************************)
(* Order of the transitions of one expansion.                              *)
(***************************************************************************)
Emitted(arc) == ~SuppressedCall(arc)
\* Number of return transitions at the head of the cached list of s
ReturnsAtHead(s) == IF 1 \in OfKind(s, "return") THEN 1 ELSE 0
\* The component transitions the cached transitions of s after the head were
\* built from, in cached order
SourcesAfterHead(s) ==
    [k \in 1..(Len(trs[s]) - ReturnsAtHead(s)) |->
        Unwrap(trs_origin[s][k + ReturnsAtHead(s)].src)]

\* C16. The cached list of an expanded state holds its return transition
\* (when it has one) first and only there, followed by one transition per
\* component transition that is not a suppressed call, in the order the
\* component lists them, each with the weight (and, for a terminal, the
\* labels) of the transition it was built from.
C16_ExpansionOrder ==
    \A s \in expanded :
        /\ OfKind(s, "return") \subseteq {1}
        /\ SourcesAfterHead(s) = SelectSeq(ComponentArcs(s), Emitted)
        /\ \A k \in 1..Len(SourcesAfterHead(s)) :
               LET tr == trs[s][k + ReturnsAtHead(s)]
                   src == SourcesAfterHead(s)[k]
               IN  /\ tr.weight = src.weight
                   /\ trs_origin[s][k + ReturnsAtHead(s)].kind = "terminal" =>
                          tr.ilabel = src.ilabel /\ tr.olabel = src.olabel

C16_Witness ==
    /\ fst_list = GrammarMixed /\ opts.root = 10
    /\ \E s \in expanded :
           /\ OfKind(s, "return") = {1}
           /\ Len(ComponentArcs(s)) = 2
           /\ Len(trs[s]) = 2
           /\ SuppressedCall(ComponentArcs(s)[1])
    /\ \E s \in expanded :
           /\ Len(ComponentArcs(s)) = 4
           /\ Len(trs[s]) = 3
           /\ OfKind(s, "call") = {3}

(***************************************************************************)
(* The start state.                                                        *)
(***************************************************************************)
\* The request answered last was start(), directly or at the head of an enumeration
AskedStart(l) == l.op = "start" \/ l.op = "states_iter"

\* C17. Once start() has answered (an identifier or no start), the cached
\* start keeps that value through every later step, every later start()
\* answers it, and compute_start runs at most once per instance.
C17_StartFixed ==
    /\ [](compute_start_calls <= 1)
    /\ [](AskedStart(last) => start_computed /\ last.value = start)
    /\ [][start_computed =>
              /\ start_computed' /\ start' = start
              /\ compute_start_calls' = compute_start_calls
              /\ AskedStart(last') => last'.value = start /\ last'.hit]_vars

C17_Witness ==
    /\ last.op = "start" /\ last.hit
    /\ IsSome(last.value)
    /\ Cardinality(expanded) >= 2
    /\ compute_start_calls = 1

(***************************************************************************)
(* Faulty components.                                                      *)
(***************************************************************************)
\* The tuple (p, c, q) of s names a state q that component c does not have
OutOfRangeState(s) == ~HasState(CompOf(s), QOf(s))

\* C18. A request that expands a state whose component state is out of range
\* is answered with an error result, and the program is not aborted.
C18_ErrorReturned ==
    /\ status # "panicked"
    /\ \A s \in KnownStates :
           (OutOfRangeState(s) /\ s \in DOMAIN expand_calls) =>
               /\ last.state = s => last.res = "err"
               /\ s \notin expanded

\* The request answered last needed the expansion of s, and the expansion failed
FailedOn(s) ==
    /\ last.op \in {"final_weight", "transitions", "next"}
    /\ last.state = s
    /\ last.res = "err"

WellFormed(fst) ==
    /\ Len(fst.final) = Len(fst.arcs)
    /\ IsSome(fst.start) => HasState(fst, Unwrap(fst.start))
    /\ \A q \in 1..Len(fst.arcs) : \A k \in 1..Len(fst.arcs[q]) :
           HasState(fst, fst.arcs[q][k].nextstate)
\* The output labels of the transitions of fst
OutputLabels(fst) ==
    UNION {{fst.arcs[q][k].olabel : k \in 1..Len(fst.arcs[q])} : q \in 1..Len(fst.arcs)}
\* The non-terminals the component registered under l calls
CalledBy(l) == OutputLabels(Callee(l)) \cap RegisteredLabels
\* The non-terminals reachable from those of S through calls, S included
RECURSIVE CallClosure(_)
CallClosure(S) ==
    LET N == S \cup UNION {CalledBy(l) : l \in S} IN
    IF N = S THEN S ELSE CallClosure(N)
\* No non-terminal reachable from the root calls itself, directly or not
AcyclicCalls ==
    \A l \in CallClosure({opts.root}) : l \notin CallClosure(CalledBy(l))
C20_Case ==
    /\ status = "ok"
    /\ \A l \in CallClosure({opts.root}) : WellFormed(Callee(l))
    /\ AcyclicCalls

\* C20. For finite components whose call graph from the root is acyclic, the
\* state enumeration terminates.  While it runs, every identifier below the
\* next one is expanded; a yield gives the next identifier, expanded, and
\* moves on by one; the enumeration stops only when the next identifier is
\* not issued, and then every issued identifier is expanded, each by one
\* run of expand, and no later step issues another; once begun, the
\* enumeration does stop.
C20_EnumerationTerminates ==
    /\ [](C20_Case =>
            /\ states_iter = "running" =>
                   /\ iter_s <= num_known_states
                   /\ \A s \in 0..(iter_s - 1) : s \in expanded
            /\ states_iter = "done" =>
                   /\ iter_s = num_known_states
                   /\ expanded = KnownStates
                   /\ \A s \in KnownStates : expand_calls[s] = 1)
    /\ [][C20_Case =>
            /\ iter_s' # iter_s =>
                   /\ states_iter = "running" /\ states_iter' = "running"
                   /\ iter_s < num_known_states
                   /\ iter_s' = iter_s + 1
                   /\ iter_s \in expanded'
                   /\ last' = [op |-> "next", state |-> iter_s, hit |-> iter_s \in expanded,
                               res |-> "ok", value |-> Some(iter_s)]
            /\ (states_iter = "running" /\ states_iter' = "done") =>
                   /\ iter_s = num_known_states
                   /\ expanded = KnownStates
                   /\ tuple_table' = tuple_table
            /\ states_iter = "done" => states_iter' = "done" /\ tuple_table' = tuple_table]_vars
    /\ (C20_Case /\ states_iter = "running") ~> (states_iter = "done")

C20_Witness ==
    /\ fst_list = GrammarWeighted /\ opts.root = 10
    /\ C20_Case
    /\ states_iter = "done"
    /\ last.op = "next" /\ last.value = None
    /\ iter_s >= 5
    /\ expanded = KnownStates

(***************************************************************************)
(* What the rewrite of one transition interns.                             *)
(***************************************************************************)
\* The step ran the engine's expand on s
ExpandedBy(s) == Slot(expand_calls, s, 0) < Slot(expand_calls', s, 0)
\* The transitions the step appended to the cached list of s
AppendedTo(s) ==
    IF s \in DOMAIN trs'
    THEN SubSeq(trs'[s], Len(Slot(trs, s, <<>>)) + 1, Len(trs'[s]))
    ELSE <<>>
\* The identifiers the step issued
NewPrefixIds == Len(prefix_table)..(Len(prefix_table') - 1)
NewTupleIds == Len(tuple_table)..(Len(tuple_table') - 1)

\* C21. A suppressed call interns nothing: every prefix and every tuple that
\* an expansion interns belongs to a transition the expansion emitted (the
\* tuple is its target, the prefix is the prefix of its target), so that an
\* expansion whose only calls are suppressed leaves the prefix interner as
\* it was.
C21_SuppressedCallInternsNothing ==
    [][\A s \in KnownStates : ExpandedBy(s) =>
           /\ \A i \in NewTupleIds :
                  \E k \in 1..Len(AppendedTo(s)) : AppendedTo(s)[k].nextstate = i
           /\ \A i \in NewPrefixIds :
                  \E k \in 1..Len(AppendedTo(s)) :
                      tuple_table'[AppendedTo(s)[k].nextstate + 1].prefix_id = i]_vars

(***************************************************************************)
(* The rewrite of a call.                                                  *)
(***************************************************************************)
\* The index in the component table of the component registered under l
CalleeIndex(l) == SetMax({k \in 1..Len(fst_list) : fst_list[k].label = l}) - 1
\* arc is a call into a component that has a start state
IsCall(arc) == Registered(arc.olabel) /\ IsSome(Callee(arc.olabel).start)
\* The component transition the k-th cached transition of s was built from
SourceOf(s, k) == Unwrap(trs_origin[s][k].src)

\* C22. A component transition (i, o, w, q') out of (p, c, q) whose output
\* label names a registered component c* with start q0* emits exactly one
\* transition, a call: its weight is w and its target is the tuple (p with
\* the frame (c, q') pushed, c*, q0*).
C22_CallTarget ==
    \A s \in expanded :
        /\ Cardinality(OfKind(s, "call")) = Count(ComponentArcs(s), IsCall)
        /\ \A k \in 1..Len(trs[s]) :
               trs_origin[s][k].kind # "return" =>
                   (trs_origin[s][k].kind = "call") = IsCall(SourceOf(s, k))
        /\ \A k \in OfKind(s, "call") :
               LET src == SourceOf(s, k)
                   tgt == trs[s][k].nextstate
               IN  /\ trs[s][k].weight = src.weight
                   /\ PrefixOf(tgt) = Append(PrefixOf(s),
                                             PrefixTuple(TupleOf(s).fst_id,
                                                         Some(src.nextstate)))
                   /\ TupleOf(tgt).fst_id = Some(CalleeIndex(src.olabel))
                   /\ TupleOf(tgt).fst_state = Callee(src.olabel).start

C22_Witness ==
    /\ fst_list = GrammarWeighted /\ opts.root = 10
    /\ \E s \in expanded : \E k \in OfKind(s, "call") :
           /\ QOf(s) = 1
           /\ trs[s][k].weight = 2
           /\ PrefixOf(trs[s][k].nextstate) = <<PrefixTuple(Some(0), Some(2))>>
    /\ \E s \in expanded : Cardinality(OfKind(s, "call")) = 1 /\ Len(trs[s]) = 2

(***************************************************************************)
(* Transitions that are not calls.                                         *)
(***************************************************************************)
\* The output label lies in [N_min, N_max] and is not a registered non-terminal
InRangeUnregistered(arc) == ~OutsideRange(arc) /\ ~Registered(arc.olabel)
NotRegistered(arc) == ~Registered(arc.olabel)
\* The k-th cached transition of s is its source, re-targeted within (p, c)
EmittedUnchanged(s, k) ==
    /\ trs_origin[s][k].kind = "terminal"
    /\ trs[s][k].ilabel = SourceOf(s, k).ilabel
    /\ trs[s][k].olabel = SourceOf(s, k).olabel
    /\ trs[s][k].weight = SourceOf(s, k).weight
    /\ TupleOf(trs[s][k].nextstate) =
           ReplaceStateTuple_new(TupleOf(s).prefix_id, TupleOf(s).fst_id,
                                 Some(SourceOf(s, k).nextstate))

\* C23. A component transition whose output label lies in [N_min, N_max] but
\* is not registered is emitted unchanged, re-targeted to (p, c, q'), exactly
\* as one whose output label is 0 or outside the range: each such component
\* transition has its cached transition, with the same labels and weight and
\* the prefix and component of the source state.
C23_UnregisteredIsTerminal ==
    \A s \in expanded :
        /\ Cardinality(OfKind(s, "terminal")) = Count(ComponentArcs(s), NotRegistered)
        /\ \A k \in 1..Len(trs[s]) :
               (trs_origin[s][k].kind # "return"
                /\ (InRangeUnregistered(SourceOf(s, k)) \/ OutsideRange(SourceOf(s, k))))
                   => EmittedUnchanged(s, k)

C23_Witness ==
    /\ fst_list = GrammarWeighted /\ opts.root = 10
    /\ \E s \in expanded : \E k \in 1..Len(trs[s]) :
           /\ trs_origin[s][k].kind = "terminal"
           /\ InRangeUnregistered(SourceOf(s, k))
           /\ trs[s][k].olabel = 15 /\ trs[s][k].weight = 2
    /\ \E s \in expanded : \E k \in 1..Len(trs[s]) :
           /\ trs_origin[s][k].kind = "terminal"
           /\ OutsideRange(SourceOf(s, k))
           /\ TupleOf(s).prefix_id > 0

(***************************************************************************)
(* The labels of a call under the four policies.                           *)
(***************************************************************************)
\* C24. Under each call label policy in force, a call built from a component
\* transition with labels (i, o) has input label 0 under Neither and Output
\* and i under Input and Both, and output label 0 under Neither and Input
\* and, under Output and Both, the configured call_output_label when one is
\* set and o otherwise.
C24_CallLabelPolicy ==
    \A s \in expanded : \A k \in OfKind(s, "call") :
        /\ trs[s][k].ilabel =
               (IF call_label_type_ \in {"ReplaceLabelNeither", "ReplaceLabelOutput"}
                THEN 0 ELSE SourceOf(s, k).ilabel)
        /\ trs[s][k].olabel =
               (IF call_label_type_ \in {"ReplaceLabelNeither", "ReplaceLabelInput"}
                THEN 0
                ELSE IF IsSome(call_output_label_) THEN Unwrap(call_output_label_)
                     ELSE SourceOf(s, k).olabel)

C24_Witness ==
    /\ call_label_type_ = "ReplaceLabelBoth"
    /\ call_output_label_ = Some(7)
    /\ \E s \in expanded : \E k \in OfKind(s, "call") :
           /\ SourceOf(s, k).ilabel = 4 /\ SourceOf(s, k).olabel = 15
           /\ trs[s][k].ilabel = 4 /\ trs[s][k].olabel = 7

(***************************************************************************)
(* The balance of call and return.                                         *)
(***************************************************************************)
\* The tuple (p, c, q') the caller s resumes in after its k-th transition
ResumeTuple(s, k) ==
    ReplaceStateTuple_new(TupleOf(s).prefix_id, TupleOf(s).fst_id,
                          Some(SourceOf(s, k).nextstate))
\* The prefix of s extended by the frame (c, q') of its k-th transition
CalleePrefix(s, k) ==
    prefix_push(PrefixOf(s), TupleOf(s).fst_id, Some(SourceOf(s, k).nextstate))
\* The target compute_arc gives a terminal transition to q' out of (p, c, q)
TerminalTarget(s, k) == find_id(tuple_table, ResumeTuple(s, k))

\* C25. For a cached call transition out of (p, c, q) built from a component
\* transition to q', every cached return transition out of a state whose
\* prefix is p extended by the frame (c, q') targets the identifier of
\* (p, c, q'): the identifier a terminal transition to q' out of (p, c, q)
\* is given, which any cached terminal transition to q' out of a state of
\* (p, c) has as its target.
C25_CallReturnBalanced ==
    \A s \in expanded : \A k \in OfKind(s, "call") :
    \A u \in expanded : \A j \in OfKind(u, "return") :
        PrefixOf(u) = CalleePrefix(s, k) =>
            /\ Interned(tuple_table, ResumeTuple(s, k))
            /\ trs[u][j].nextstate = TerminalTarget(s, k).id
            /\ TerminalTarget(s, k).table = tuple_table
            /\ \A v \in expanded : \A m \in OfKind(v, "terminal") :
                   ResumeTuple(v, m) = ResumeTuple(s, k) =>
                       trs[v][m].nextstate = trs[u][j].nextstate

C25_Witness ==
    /\ \E s \in expanded : \E k \in OfKind(s, "call") :
       \E u \in expanded : \E j \in OfKind(u, "return") :
       \E m \in OfKind(s, "terminal") :
           /\ PrefixOf(u) = CalleePrefix(s, k)
           /\ trs[s][m].nextstate = trs[u][j].nextstate
           /\ trs[u][j].nextstate # trs[s][k].nextstate
    /\ \E s \in expanded : \E k \in OfKind(s, "call") :
       \E u \in expanded : \E j \in OfKind(u, "return") :
           /\ Len(PrefixOf(s)) >= 1
           /\ PrefixOf(u) = CalleePrefix(s, k)
           /\ TupleOf(trs[u][j].nextstate).prefix_id = TupleOf(s).prefix_id

(***************************************************************************)
(* The start state.                                                        *)
(***************************************************************************)
\* This step is the start() request that runs compute_start
FirstStart == last'.op = "start" /\ ~start_computed
\* The start tuple: the empty prefix, the root component, its start state
StartTuple(pid) == ReplaceStateTuple_new(pid, Some(root), FstStart(FstAt(root)))

\* C26. The start() request that computes the start state returns no start
\* when the root component has none, and then interns no prefix and no tuple
\* (both interners stay empty, as they do ever after); otherwise it returns
\* the identifier of the tuple (empty prefix, root index, start of the root
\* component).  Every start() request returns the cached start.
C26_StartState ==
    /\ [][FirstStart =>
            IF IsNone(FstStart(FstAt(root)))
            THEN /\ last'.value = None
                 /\ Len(prefix_table') = 0
                 /\ Len(tuple_table') = 0
            ELSE /\ IsSome(last'.value)
                 /\ Unwrap(last'.value) = Len(tuple_table)
                 /\ find_tuple(tuple_table', Unwrap(last'.value)) =
                        StartTuple(tuple_table'[Unwrap(last'.value) + 1].prefix_id)
                 /\ find_tuple(prefix_table',
                               tuple_table'[Unwrap(last'.value) + 1].prefix_id) =
                        ReplaceStackPrefix_new]_vars
    /\ [][last'.op = "start" => last'.value = start']_vars
    /\ [](start_computed /\ IsNone(start) =>
              Len(prefix_table) = 0 /\ num_known_states = 0)

C26_Witness ==
    /\ fst_list = GrammarTwoLevel /\ opts.root = 20
    /\ last.op = "start" /\ ~last.hit
    /\ last.value = Some(0)
    /\ tuple_table = <<ReplaceStateTuple_new(0, Some(1), Some(0))>>
    /\ prefix_table = <<ReplaceStackPrefix_new>>

(***************************************************************************)
(* Interner and cache entries are kept.                                    *)
(***************************************************************************)
\* Every entry of the table before is the same entry of the table after
Extends(after, before) ==
    /\ Len(after) >= Len(before)
    /\ \A i \in 1..Len(before) : after[i] = before[i]

\* C27. In every step, each interned prefix identifier and tuple identifier
\* keeps its value, num_known_states does not decrease, every expanded state
\* stays expanded and its cached transition list and final weight are kept.
C27_EntriesKept ==
    [][/\ Extends(prefix_table', prefix_table)
       /\ Extends(tuple_table', tuple_table)
       /\ Len(tuple_table') >= num_known_states
       /\ expanded \subseteq expanded'
       /\ \A s \in expanded :
              /\ trs'[s] = trs[s]
              /\ final_weight'[s] = final_weight[s]]_vars

\* An expanded state is asked for again after later expansions grew both
\* interners
C27_Witness ==
    /\ Len(prefix_table) >= 2 /\ Len(tuple_table) >= 4
    /\ last.op = "transitions" /\ last.hit /\ last.res = "ok"
    /\ last.value = trs[last.state] /\ Len(trs[last.state]) >= 2
    /\ \E u \in expanded : u > last.state

(***************************************************************************)
(* One request expands one state.                                          *)
(***************************************************************************)
\* This step is a transitions(s) or final_weight(s) request
Request(s) == last'.op \in {"transitions", "final_weight"} /\ last'.state = s
\* The cache slots of state t
CacheSlots(t) ==
    <<t \in expanded, Slot(trs, t, <<>>), Slot(final_weight, t, None)>>
\* The identifiers issued by this step
NewlyIssued == Len(tuple_table)..(Len(tuple_table') - 1)

\* C28. A transitions(s) or final_weight(s) request leaves the expanded
\* flag, the transition list and the final weight of every state other than
\* s as they were, and the states it newly issues are unexpanded after it,
\* with no transition list and no final weight.
C28_ExpandsOnlyRequested ==
    [][\A s \in 0..(Len(tuple_table) - 1) :
           Request(s) =>
               /\ \A t \in 0..(Len(tuple_table') - 1) :
                      t # s => CacheSlots(t)' = CacheSlots(t)
               /\ \A n \in NewlyIssued :
                      /\ n \notin expanded'
                      /\ n \notin DOMAIN trs'
                      /\ n \notin DOMAIN final_weight'
               /\ expanded' \subseteq expanded \cup {s}]_vars

\* An expansion that issued two new targets while another state was expanded
C28_Witness ==
    /\ last.op \in {"transitions", "final_weight"} /\ ~last.hit /\ last.res = "ok"
    /\ last.state \in expanded
    /\ \E n \in KnownStates :
           /\ n > last.state /\ n + 1 \in KnownStates
           /\ n \notin expanded /\ n + 1 \notin expanded
           /\ \E k \in 1..Len(trs[last.state]) : trs[last.state][k].nextstate = n
           /\ \A u \in expanded : \A k \in 1..Len(trs[u]) :
                  trs[u][k].nextstate \in {n, n + 1} => u = last.state
    /\ \E u \in expanded : u # last.state

(***************************************************************************)
(* Two instances driven in different orders.                               *)
(***************************************************************************)
\* A second instance of the same engine, with tables of its own, expanded in
\* the order of its identifiers below the depth bound; cache holds, per
\* expanded identifier, its transition list and final weight
RECURSIVE drive_in_order(_, _, _)
drive_in_order(st, s, done) ==
    IF s >= Len(st.tuple_table)
    THEN [st |-> st, cache |-> done]
    ELSE IF Len(find_tuple(st.prefix_table,
                           find_tuple(st.tuple_table, s).prefix_id)) >= MaxDepth
    THEN drive_in_order(st, s + 1, done)
    ELSE LET e == expand(st, s)
             f == compute_final(e.st, s)
         IN  IF e.res # "ok" \/ f.res # "ok"
             THEN [st |-> e.st, cache |-> done]
             ELSE drive_in_order(e.st, s + 1,
                                 Put(done, s, [trs |-> e.pushed, final_weight |-> f.w]))

OtherInstance ==
    LET s0 == compute_start(Tables(<<>>, <<>>))
    IN  drive_in_order(s0.st, 0, EmptyMap)

\* Identifier s of the tables st read back: its prefix written out as its
\* frame sequence, its component and its component state
TupleReadBack(st, s) ==
    LET tuple == find_tuple(st.tuple_table, s)
    IN  [prefix |-> find_tuple(st.prefix_table, tuple.prefix_id),
         fst_id |-> tuple.fst_id, fst_state |-> tuple.fst_state]
\* A transition list with each target read back
ArcsReadBack(st, arcs) ==
    [k \in 1..Len(arcs) |->
        [ilabel |-> arcs[k].ilabel, olabel |-> arcs[k].olabel,
         weight |-> arcs[k].weight, target |-> TupleReadBack(st, arcs[k].nextstate)]]
Built == status \in {"ok", "panicked"}

\* C29. For the instance of the state, driven in any order, and a second
\* instance built from the same inputs and driven in the order of its
\* identifiers: every state tuple expanded in both has the same final weight
\* and the same transition list (labels, weights, order), each target read
\* back as its tuple with the prefix written out as its frame sequence.
C29_OrderIndependent ==
    Built =>
        LET other == OtherInstance
            here == Tables(prefix_table, tuple_table)
        IN  \A s \in expanded : \A u \in DOMAIN other.cache :
                TupleReadBack(here, s) = TupleReadBack(other.st, u) =>
                    /\ final_weight[s] = other.cache[u].final_weight
                    /\ ArcsReadBack(here, trs[s]) =
                           ArcsReadBack(other.st, other.cache[u].trs)

\* A state tuple expanded in both instances under different identifiers, with
\* a target numbered differently in the two
C29_Witness ==
    /\ Built /\ ~sequential
    /\ LET other == OtherInstance
           here == Tables(prefix_table, tuple_table)
       IN  \E s \in expanded : \E u \in DOMAIN other.cache :
               /\ TupleReadBack(here, s) = TupleReadBack(other.st, u)
               /\ s # u
               /\ Len(trs[s]) >= 1
               /\ \E k \in 1..Len(trs[s]) :
                      trs[s][k].nextstate # other.cache[u].trs[k].nextstate
               /\ ArcsReadBack(here, trs[s]) =
                      ArcsReadBack(other.st, other.cache[u].trs)

(***************************************************************************)
(* The self-recursive grammar.                                             *)
(***************************************************************************)
\* A: 0 -(1,1)-> 1, 0 -(2,10)-> 1, final 1, registered under 10, root 10
C30_Case == status = "ok" /\ fst_list = GrammarSelfRec /\ opts.root = 10
\* The largest number of frames of an issued state
DeepestIssued == SetMax({Depth(s) : s \in KnownStates})
\* An issued, unexpanded state at the start of A under the deepest prefix
OpenCall(s) ==
    /\ s \in KnownStates /\ s \notin expanded
    /\ QOf(s) = 0 /\ Depth(s) = DeepestIssued

\* C30. For the self-recursive grammar with root 10: once the start state is
\* issued there is, in every state, an issued state that is not expanded
\* (the start of A under the deepest prefix issued); the enumeration is never
\* done, its next identifier being always issued; the expansion of a state
\* (p, A, 0) issues a state with one frame more than p, left unexpanded; and
\* for every depth d up to the bound a state with a prefix of d frames is
\* issued at some time after the enumeration begins.
C30_SelfRecursionUnbounded ==
    /\ [](C30_Case =>
            /\ num_known_states > 0 => \E s \in KnownStates : OpenCall(s)
            /\ states_iter # "done"
            /\ states_iter = "running" /\ start_computed => iter_s < num_known_states)
    /\ [][C30_Case =>
            \A s \in KnownStates :
                s \notin expanded /\ s \in expanded' /\ QOf(s) = 0 =>
                    \E n \in NewlyIssued :
                        /\ n \notin expanded'
                        /\ Len(find_tuple(prefix_table',
                                          tuple_table'[n + 1].prefix_id)) = Depth(s) + 1]_vars
    /\ \A d \in 0..MaxDepth :
           (C30_Case /\ states_iter = "running") ~>
               (\E s \in KnownStates : Depth(s) = d)

C30_Witness ==
    /\ C30_Case
    /\ states_iter = "running" /\ iter_s >= 3
    /\ Cardinality(expanded) >= 4
    /\ \E s \in KnownStates : OpenCall(s) /\ Depth(s) = MaxDepth
    /\ \A d \in 0..MaxDepth : \E s \in KnownStates : Depth(s) = d

(***************************************************************************)
(* The interned tuples and frames are complete.                            *)
(***************************************************************************)
\* Both fields present, the component index one of fst_array, the prefix issued
CompleteTuple(tuple) ==
    /\ IsSome(tuple.fst_id) /\ IsSome(tuple.fst_state)
    /\ HasFst(Unwrap(tuple.fst_id))
    /\ Issued(prefix_table, tuple.prefix_id)
CompleteFrame(frame) == IsSome(frame.fst_id) /\ IsSome(frame.nextstate)
\* What expand and compute_final unwrap and look up for the issued state s
\* is there: its tuple, its prefix and, for a return, the top frame
LookupsSafe(s) ==
    /\ Issued(tuple_table, s)
    /\ CompleteTuple(TupleOf(s))
    /\ TupleOf(s).prefix_id > 0 =>
           /\ Len(PrefixOf(s)) > 0
           /\ CompleteFrame(prefix_top(PrefixOf(s)))
           /\ HasFst(Unwrap(prefix_top(PrefixOf(s)).fst_id))
\* The outcome of the engine on s: expand, then compute_final
EngineOn(s) ==
    LET e == expand(Tables(prefix_table, tuple_table), s)
    IN  [expand |-> e.res, final |-> compute_final(e.st, s).res]

\* C31. Every interned tuple has its component index and component state
\* present, the index one of the component table and the prefix identifier
\* issued; every frame of every interned prefix has both fields present; so
\* for every issued state what expand looks up and unwraps is there, and the
\* engine fails on an issued state only where the component does not have
\* the component state of the tuple.
C31_TuplesComplete ==
    /\ \A i \in 1..Len(tuple_table) : CompleteTuple(tuple_table[i])
    /\ \A i \in 1..Len(prefix_table) : \A k \in 1..Len(prefix_table[i]) :
           CompleteFrame(prefix_table[i][k])
    /\ \A s \in KnownStates :
           /\ LookupsSafe(s)
           /\ ~OutOfRangeState(s) =>
                  EngineOn(s) = [expand |-> "ok", final |-> "ok"]

C31_Witness ==
    /\ Len(tuple_table) >= 5 /\ Len(prefix_table) >= 3
    /\ \E s \in expanded : Depth(s) = 2 /\ OfKind(s, "return") # {}
    /\ \E s \in KnownStates : s \notin expanded /\ Depth(s) = MaxDepth
    /\ \A s \in KnownStates : LookupsSafe(s)

(***************************************************************************)
(* Prefix identifier 0.                                                    *)
(***************************************************************************)
\* The test of compute_final on the tuple of s, and that of compute_final_arc
FinalTest(s) == TupleOf(s).prefix_id = 0
ReturnTest(s) == TupleOf(s).prefix_id > 0

\* C32. In every reachable state with an interned prefix, identifier 0 is the
\* empty prefix and no other identifier is; so for every issued state the
\* test prefix_id = 0 holds exactly when its prefix is empty and the test
\* prefix_id > 0 exactly when it is not.
C32_EmptyPrefixIsZero ==
    Len(prefix_table) > 0 =>
        /\ find_tuple(prefix_table, 0) = ReplaceStackPrefix_new
        /\ \A pid \in PrefixIds :
               find_tuple(prefix_table, pid) = ReplaceStackPrefix_new => pid = 0
        /\ \A s \in KnownStates :
               /\ FinalTest(s) <=> Len(PrefixOf(s)) = 0
               /\ ReturnTest(s) <=> Len(PrefixOf(s)) > 0

\* A return popped the last frame and found the empty prefix under 0 again
C32_Witness ==
    /\ Len(prefix_table) >= 3
    /\ \E u \in expanded : \E j \in OfKind(u, "return") :
           /\ Len(PrefixOf(u)) = 1 /\ ReturnTest(u)
           /\ FinalTest(trs[u][j].nextstate)
           /\ trs[u][j].nextstate \in expanded
           /\ IsSome(final_weight[trs[u][j].nextstate])

(***************************************************************************)
(* Stack discipline.                                                       *)
(***************************************************************************)
\* Component c has a transition with target q whose output label is a
\* registered non-terminal that resolves to component callee
CallsAt(c, q, callee) ==
    \E from \in 1..Len(FstAt(c).arcs) : \E k \in 1..Len(FstAt(c).arcs[from]) :
        LET arc == FstAt(c).arcs[from][k]
        IN  /\ arc.nextstate = q
            /\ arc.olabel \in DOMAIN nonterminal_hash
            /\ nonterminal_hash[arc.olabel] = callee

\* C33. Every issued state whose prefix is empty has the root component
\* index; every issued state whose prefix has top frame (c, q') has as its
\* component one that a registered non-terminal resolves to on a transition
\* of component c with target q'.
C33_StackDiscipline ==
    \A s \in KnownStates :
        IF Len(PrefixOf(s)) = 0
        THEN TupleOf(s).fst_id = Some(root)
        ELSE LET top == prefix_top(PrefixOf(s))
             IN  CallsAt(Unwrap(top.fst_id), Unwrap(top.nextstate),
                         Unwrap(TupleOf(s).fst_id))

\* A state of the callee under the frame of the root's call, and the return
\* that leads back to the root component under the empty prefix
C33_Witness ==
    /\ root = 0 /\ Len(fst_array) = 3
    /\ \E s \in KnownStates :
           /\ Len(PrefixOf(s)) = 1
           /\ TupleOf(s).fst_id = Some(2)
           /\ prefix_top(PrefixOf(s)) = PrefixTuple(Some(0), Some(1))
           /\ CallsAt(0, 1, 2)
    /\ \E u \in expanded : \E j \in OfKind(u, "return") :
           /\ Len(PrefixOf(trs[u][j].nextstate)) = 0
           /\ TupleOf(trs[u][j].nextstate).fst_id = Some(0)

(***************************************************************************)
(* Every issued state is a cached target.                                  *)
(***************************************************************************)
\* The targets of the cached transitions of the expanded states of S
CachedTargets(S) ==
    UNION {{trs[u][k].nextstate : k \in 1..Len(trs[u])} : u \in S \cap expanded}
\* The states that cached transitions reach from those of S, S included
RECURSIVE CachedClosure(_)
CachedClosure(S) ==
    LET N == S \cup CachedTargets(S) IN
    IF N = S THEN S ELSE CachedClosure(N)

\* C34. Every issued state identifier other than the start is the target of
\* a cached transition of an expanded state, and every issued state is
\* reached from the start through cached transitions; no state is issued
\* while there is no start.
C34_IssuedIsReachable ==
    /\ \A s \in KnownStates :
           Some(s) # start => s \in CachedTargets(expanded)
    /\ IsNone(start) => KnownStates = {}
    /\ IsSome(start) => KnownStates = CachedClosure({Unwrap(start)})

\* Targets issued by a call, a terminal transition and a return, two cached
\* transitions away from the start and more
C34_Witness ==
    /\ IsSome(start) /\ num_known_states >= 5
    /\ CachedTargets({Unwrap(start)}) # KnownStates \ {Unwrap(start)}
    /\ \E u \in expanded : OfKind(u, "return") # {} /\ Some(u) # start
    /\ KnownStates = CachedClosure({Unwrap(start)})

(***************************************************************************)
(* A label registered more than once.                                      *)
(***************************************************************************)
\* Entry k of the input list has its label again in a later entry
Shadowed(k) == \E j \in (k + 1)..Len(fst_list) : fst_list[j].label = fst_list[k].label
DuplicateLabels == \E k \in 1..Len(fst_list) : Shadowed(k)
\* The component indices of the targets of the cached transitions
EnteredComponents ==
    {Unwrap(TupleOf(t).fst_id) : t \in CachedTargets(expanded)}

\* C35. After construction the component table holds every component of the
\* input list in input order, also under a repeated label; each label
\* resolves to the index of the last entry registered under it, and so does
\* the root; no issued state and no target of a cached transition lies in a
\* component whose label a later entry repeats.
C35_LastRegistrationWins ==
    Built =>
        /\ Len(fst_array) = Len(fst_list)
        /\ \A k \in 1..Len(fst_list) : fst_array[k] = fst_list[k].fst
        /\ DOMAIN nonterminal_hash = RegisteredLabels
        /\ \A l \in RegisteredLabels : nonterminal_hash[l] = CalleeIndex(l)
        /\ \A k \in 1..Len(fst_list) :
               ~Shadowed(k) => nonterminal_hash[fst_list[k].label] = k - 1
        /\ root = CalleeIndex(opts.root)
        /\ \A s \in KnownStates : ~Shadowed(Unwrap(TupleOf(s).fst_id) + 1)
        /\ \A c \in EnteredComponents : ~Shadowed(c + 1)

\* The root's call under the repeated label 20 entered the third component,
\* the last under 20, while the second is stored and never entered
C35_Witness ==
    /\ fst_list = GrammarDuplicate /\ opts.root = 10 /\ DuplicateLabels
    /\ fst_array = <<FstCallB, FstWeightedB, FstB>>
    /\ Shadowed(2) /\ nonterminal_hash[20] = 2
    /\ \E s \in expanded : \E k \in OfKind(s, "call") :
           /\ SourceOf(s, k).olabel = 20
           /\ TupleOf(trs[s][k].nextstate).fst_id = Some(2)
           /\ trs[s][k].nextstate \in expanded
    /\ EnteredComponents = {0, 2}

====
